---- MODULE Spec2Model ----
(***************************************************************************)
(* Catalog ingestion and cross-supplier matching of the hotel procurement  *)
(* application (src/app.py): text normalisation, column-role guessing,     *)
(* price parsing, catalog item building, header detection and fuzzy        *)
(* matching.                                                               *)
(*                                                                         *)
(* Representation.  A Python str is a sequence of one-character strings.   *)
(* A cell (a value held in a pandas DataFrame, a column label, a function  *)
(* argument) is a record [k, s, n]: k = "None" (Python None), k = "nan"    *)
(* (float NaN), k = "str" (text s) or k = "int" (integer n).  A Python     *)
(* dict that may be empty ({} / None) is a sequence of length 0 or 1.      *)
(* A table (DataFrame) is a record [columns, index, rows]: the column    *)
(* labels, the row labels and the rows, each row a sequence of cells.      *)
(* A float that is a ratio of two small integers is the pair <<num, den>>; *)
(* comparisons are done by cross multiplication, which agrees with IEEE    *)
(* double comparison of the correctly rounded quotients for operands far   *)
(* below 2^53.                                                             *)
(***************************************************************************)
EXTENDS Integers, Sequences, FiniteSets, TLC

VARIABLES
    pc,              \* name of the last operation that acted ("start" before any)
    proc_name,       \* _match_catalog_item: the procurement item name
    catalog_items,   \* _match_catalog_item: the supplier's catalog item list
    match_result,    \* _match_catalog_item: the returned dict
    price_cell,      \* _parse_price: the value of the price cell
    price_result,    \* _parse_price: the returned float, <<>> for None
    df,              \* _build_catalog_items: the table [columns, rows]
    column_map,      \* _build_catalog_items: role -> column label, '' if unresolved
    default_currency,\* _build_catalog_items: the caller's default currency
    image_map,       \* _build_catalog_items: (sheet, row) -> image path
    sheet_name,      \* _build_catalog_items: the sheet identifier
    items,           \* _build_catalog_items: the returned list of items
    mapping,         \* _guess_column_map: the returned role -> label map
    calls,           \* _guess_column_map: number of calls made on df
    prepared,        \* _prepare_dataframe: the returned table, or the error raised
    uploaded_file,   \* show_supplier_portal: the uploaded catalog file
    extract_images,  \* show_supplier_portal: the "Extract embedded images" checkbox
    item_choice,     \* show_supplier_portal: the "Item Name Column" selection
    catalog_data,    \* show_supplier_portal: the loader's result, <<>> for None
    save_calls,      \* show_supplier_portal: the save_supplier_catalog calls made
    saved,           \* show_supplier_portal: the bulk import's saved counter
    skipped,         \* show_supplier_portal: the bulk import's skipped counter
    message,         \* show_supplier_portal: what the page shows after the button
    project_items,   \* show_supplier_comparison: the project's procurement items
    selected_suppliers, \* show_supplier_comparison: the suppliers selected
    stored_items,    \* show_supplier_comparison: the catalog items of the suppliers
    comparison_rows, \* show_supplier_comparison: the rows built
    rfp_input,       \* _compose_rfp_email: (project, supplier, items)
    rfp_email,       \* _compose_rfp_email: the returned {subject, body}
    rfp_calls,       \* _compose_rfp_email: number of calls made on rfp_input
    norm_value,      \* _normalize_text: the value
    norm_once,       \* _normalize_text(value)
    norm_twice,      \* _normalize_text(_normalize_text(value))
    projects_file,   \* ProcurementDatabase: the content of projects.json
    items_file,      \* ProcurementDatabase: the content of procurement_items.json
    now,             \* the clock read by datetime.now(), in ticks
    returned_ids,    \* save_project: the project ids returned so far
    pressed          \* show_procurement_checklist: the button pressed last

matchVars == <<proc_name, catalog_items, match_result>>

priceVars == <<price_cell, price_result>>

buildVars == <<df, column_map, default_currency, image_map, sheet_name, items>>

guessVars == <<mapping, calls>>

portalVars ==
    <<uploaded_file, extract_images, item_choice, catalog_data, save_calls,
      saved, skipped, message>>

compareVars == <<project_items, selected_suppliers, stored_items, comparison_rows>>

rfpVars == <<rfp_input, rfp_email, rfp_calls>>

normVars == <<norm_value, norm_once, norm_twice>>

storeVars == <<projects_file, items_file, now, returned_ids, pressed>>

vars ==
    <<pc, matchVars, priceVars, buildVars, guessVars, prepared, portalVars,
      compareVars, rfpVars, normVars, storeVars>>

----------------------------------------------------------------------------
(* Bounds of the model *)

\* longest procurement / catalog item name, in characters
MaxNameLen == 3

\* longest catalog item list handed to the matcher
MaxCatalog == 3

\* longest generated price cell text, in characters
MaxPriceLen == 3

\* most rows of a table handed to the item builder
MaxRows == 2

\* most columns of a table handed to the column-role classifier
MaxCols == 3

\* most calls of the classifier on one table
MaxCalls == 2

\* most rows of a grid handed to the normalizer
MaxGridRows == 3

\* most sheets of an uploaded workbook, most tables of an uploaded PDF
MaxSheets == 2

\* procurement items of a project
MaxProjectItems == 2

\* catalog items returned for the selected suppliers
MaxStored == 2

\* items of one request for proposal
MaxRfpItems == 2

----------------------------------------------------------------------------
(* Python values *)

NoneCell == [k |-> "None", s |-> <<>>, n |-> 0]

NanCell == [k |-> "nan", s |-> <<>>, n |-> 0]

TextCell(t) == [k |-> "str", s |-> t, n |-> 0]

IntCell(i) == [k |-> "int", s |-> <<>>, n |-> i]

\* a finite float, held as the text repr() gives for it
FloatCell(t) == [k |-> "float", s |-> t, n |-> 0]

UpperLetters ==
    <<"A","B","C","D","E","F","G","H","I","J","K","L","M",
      "N","O","P","Q","R","S","T","U","V","W","X","Y","Z">>

LowerLetters ==
    <<"a","b","c","d","e","f","g","h","i","j","k","l","m",
      "n","o","p","q","r","s","t","u","v","w","x","y","z">>

Digits == <<"0","1","2","3","4","5","6","7","8","9">>

Range(seq) == {seq[i] : i \in DOMAIN seq}

\* the character U+212A (Kelvin sign), whose lower case is the ASCII "k"
KelvinSign == "U+212A"

\* str.lower() on one character: the ASCII capitals and the Kelvin sign
\* change, every other character of the model is kept
LowerChar(c) ==
    IF \E i \in DOMAIN UpperLetters : UpperLetters[i] = c
    THEN LowerLetters[CHOOSE i \in DOMAIN UpperLetters : UpperLetters[i] = c]
    ELSE IF c = KelvinSign THEN "k"
    ELSE c

\* str.lower()
LowerText(t) == [i \in DOMAIN t |-> LowerChar(t[i])]

\* the characters str.strip() removes
IsSpace(c) == c = " "

\* str.strip()
StripText(t) ==
    LET keep == {i \in DOMAIN t : ~IsSpace(t[i])}
    IN  IF keep = {} THEN <<>>
        ELSE LET lo == CHOOSE i \in keep : \A j \in keep : i <= j
                 hi == CHOOSE i \in keep : \A j \in keep : j <= i
             IN  SubSeq(t, lo, hi)

RECURSIVE DigitsOfNat(_)
\* decimal digits of a natural number
DigitsOfNat(i) ==
    IF i < 10 THEN <<Digits[i + 1]>>
    ELSE DigitsOfNat(i \div 10) \o <<Digits[(i % 10) + 1]>>

\* str(value)
StrOf(v) ==
    CASE v.k = "None" -> <<"N","o","n","e">>
      [] v.k = "nan"  -> <<"n","a","n">>
      [] v.k = "int"  -> IF v.n < 0 THEN <<"-">> \o DigitsOfNat(0 - v.n)
                         ELSE DigitsOfNat(v.n)
      [] OTHER        -> v.s

\* Python truthiness of a value (float NaN is truthy)
Truthy(v) ==
    CASE v.k = "None" -> FALSE
      [] v.k = "nan"  -> TRUE
      [] v.k = "int"  -> v.n # 0
      [] v.k = "float" -> \E i \in DOMAIN v.s : v.s[i] \in {"1","2","3","4","5","6","7","8","9"}
      [] OTHER        -> v.s # <<>>

\* needle in hay  (substring test of two str)
Contains(hay, needle) ==
    \E i \in 0..(Len(hay) - Len(needle)) :
        \A j \in 1..Len(needle) : hay[i + j] = needle[j]

\* str.startswith
StartsWith(t, prefix) ==
    /\ Len(prefix) <= Len(t)
    /\ \A j \in 1..Len(prefix) : t[j] = prefix[j]

RECURSIVE PickFrom(_, _, _)
\* the subsequence of t at the positions >= i that are in keep (what a
\* filter of a list, a row or a column axis leaves)
PickFrom(t, i, keep) ==
    IF i > Len(t) THEN <<>>
    ELSE (IF i \in keep THEN <<t[i]>> ELSE <<>>) \o PickFrom(t, i + 1, keep)

\* all str of length 0..n over an alphabet
TextsUpTo(alphabet, n) == UNION {[1..m -> alphabet] : m \in 0..n}

----------------------------------------------------------------------------
(* _normalize_text *)

\* the character class [a-z0-9] of the regular expression
IsAlnumLower(c) == c \in Range(LowerLetters) \cup Range(Digits)

\* re.sub(r'[^a-z0-9]+', '', t)
StripNonAlnum(t) == SelectSeq(t, IsAlnumLower)

\* _normalize_text without the re.sub: lower case only
_normalize_text_loweronly(value) ==
    IF value.k = "None" THEN <<>>
    ELSE LowerText(StrOf(value))

_normalize_text(value) ==
    IF value.k = "None" THEN <<>>
    ELSE StripNonAlnum(LowerText(StrOf(value)))

----------------------------------------------------------------------------
(* difflib.SequenceMatcher(None, a, b).ratio(), as _similarity_score uses  *)
(* it: no junk function, and the automatic junk heuristic only acts on a   *)
(* second sequence of 200 or more characters.                              *)

RECURSIVE RunLen(_, _, _, _)
\* length of the common run of a and b starting at a[i], b[j]
RunLen(a, b, i, j) ==
    IF i > Len(a) \/ j > Len(b) \/ a[i] # b[j] THEN 0
    ELSE 1 + RunLen(a, b, i + 1, j + 1)

\* find_longest_match: the longest common block; of those the one starting
\* earliest in a, and of those the one starting earliest in b
FindLongestMatch(a, b) ==
    LET pairs == (DOMAIN a) \X (DOMAIN b)
        best  == CHOOSE p \in pairs :
                    \A q \in pairs :
                        LET kp == RunLen(a, b, p[1], p[2])
                            kq == RunLen(a, b, q[1], q[2])
                        IN  \/ kp > kq
                            \/ /\ kp = kq
                               /\ \/ p[1] < q[1]
                                  \/ p[1] = q[1] /\ p[2] <= q[2]
    IN  [i |-> best[1], j |-> best[2], size |-> RunLen(a, b, best[1], best[2])]

RECURSIVE MatchedChars(_, _)
\* get_matching_blocks: total size of the blocks found by splitting around
\* the longest match and recursing to its left and to its right
MatchedChars(a, b) ==
    IF a = <<>> \/ b = <<>> THEN 0
    ELSE LET m == FindLongestMatch(a, b)
         IN  IF m.size = 0 THEN 0
             ELSE m.size
                  + MatchedChars(SubSeq(a, 1, m.i - 1), SubSeq(b, 1, m.j - 1))
                  + MatchedChars(SubSeq(a, m.i + m.size, Len(a)),
                                 SubSeq(b, m.j + m.size, Len(b)))

\* ratio(): 2.0 * matches / length, and 1.0 when both sequences are empty
Ratio(a, b) ==
    IF Len(a) + Len(b) = 0 THEN <<1, 1>>
    ELSE <<2 * MatchedChars(a, b), Len(a) + Len(b)>>

ScoreGT(x, y) == x[1] * y[2] > y[1] * x[2]

ScoreGE(x, y) == x[1] * y[2] >= y[1] * x[2]

ScoreEQ(x, y) == x[1] * y[2] = y[1] * x[2]

----------------------------------------------------------------------------
(* Fuzzy matcher *)

\* the confidence floor 0.55, in hundredths
MinScorePct == 55

MinScore == <<MinScorePct, 100>>

\* _similarity_score on the texts as given, without _normalize_text
_similarity_score_raw(a, b) == Ratio(a, b)

_similarity_score(a, b) ==
    Ratio(_normalize_text(TextCell(a)), _normalize_text(TextCell(b)))

RECURSIVE BestOf_lastwins(_, _, _, _, _)
\* BestOf with "score >= best_score": the last of equal scores wins
BestOf_lastwins(name, candidates, i, best_match, best_score) ==
    IF i > Len(candidates) THEN [best_match |-> best_match, best_score |-> best_score]
    ELSE LET score == _similarity_score(name, candidates[i].item_name)
         IN  IF ScoreGE(score, best_score)
             THEN BestOf_lastwins(name, candidates, i + 1, <<candidates[i]>>, score)
             ELSE BestOf_lastwins(name, candidates, i + 1, best_match, best_score)

RECURSIVE BestOf(_, _, _, _, _)
\* the for loop of _match_catalog_item from item i on;
\* best_match is <<>> for None
BestOf(name, candidates, i, best_match, best_score) ==
    IF i > Len(candidates) THEN [best_match |-> best_match, best_score |-> best_score]
    ELSE LET score == _similarity_score(name, candidates[i].item_name)
         IN  IF ScoreGT(score, best_score)
             THEN BestOf(name, candidates, i + 1, <<candidates[i]>>, score)
             ELSE BestOf(name, candidates, i + 1, best_match, best_score)

\* _match_catalog_item without the confidence floor
_match_catalog_item_nofloor(name, candidates) ==
    LET r == BestOf(name, candidates, 1, <<>>, <<0, 1>>)
    IN  IF r.best_match # <<>>
        THEN <<[item |-> r.best_match[1], match_score |-> r.best_score]>>
        ELSE <<>>

\* the returned dict: <<>> for {}, else the matched item with its match_score
_match_catalog_item(name, candidates) ==
    LET r == BestOf(name, candidates, 1, <<>>, <<0, 1>>)
    IN  IF r.best_match # <<>> /\ ScoreGE(r.best_score, MinScore)
        THEN <<[item |-> r.best_match[1], match_score |-> r.best_score]>>
        ELSE <<>>

----------------------------------------------------------------------------
(* Inputs of the matcher *)

\* a lowercase letter, an uppercase letter and a punctuation character
NameAlphabet == {"a", "B", "-"}

Names == TextsUpTo(NameAlphabet, MaxNameLen)

\* item names of the catalogs: empty, punctuation only, mixed case, and
\* names sharing some or all characters
CatalogNames ==
    { <<>>, <<"-">>, <<"a">>, <<"B","a">>, <<"a","B">>, <<"a","-","a">> }

\* a catalog item as _build_catalog_items stores it; source_row tells apart
\* items of equal name
CatalogOf(names) ==
    [i \in DOMAIN names |-> [item_name |-> names[i], source_row |-> i]]

Catalogs ==
    {CatalogOf(ns) : ns \in UNION {[1..m -> CatalogNames] : m \in 0..MaxCatalog}}

\* the character U+2013 (en dash): not a letter, not a digit, not ASCII
EnDash == "U+2013"

\* the procurement name of scenario C, "King Bed - Premium" with an en dash
ScenarioCName ==
    <<"K","i","n","g"," ","B","e","d"," ",EnDash," ",
      "P","r","e","m","i","u","m">>

KingSizeBedPremium ==
    <<"K","i","n","g"," ","S","i","z","e"," ","B","e","d"," ",
      "P","r","e","m","i","u","m">>

QueenBedStandard ==
    <<"Q","u","e","e","n"," ","B","e","d"," ",
      "S","t","a","n","d","a","r","d">>

\* the scenario name in another case and with other punctuation
KingBedPremiumCopy ==
    <<"k","I","N","G","-","b","e","d","!"," ","P","R","E","M","I","U","M",".">>

\* two letters outside ASCII (U+5E8A and U+6905), which str.lower keeps
NonAsciiLetters == {"U+5E8A", "U+6905"}

\* names written wholly in letters outside ASCII
NonAsciiNames == {<<"U+5E8A">>, <<"U+6905">>, <<"U+6905", "U+5E8A">>}

\* the catalogs scenario C is matched against: both items, the second item
\* alone, and the second item followed by a copy of the name
ScenarioCCatalogs ==
    { CatalogOf(<<KingSizeBedPremium, QueenBedStandard>>),
      CatalogOf(<<QueenBedStandard>>),
      CatalogOf(<<QueenBedStandard, KingBedPremiumCopy>>) }

----------------------------------------------------------------------------
(* The parts of the state a specification does not exercise *)

EmptyText == TextCell(<<>>)

EmptyImageMap == [key \in {} |-> <<>>]

IdleMatch ==
    /\ proc_name = <<>>
    /\ catalog_items = <<>>
    /\ match_result = <<>>

IdlePrice ==
    /\ price_cell = NoneCell
    /\ price_result = <<>>

IdleBuild ==
    /\ df = [columns |-> <<>>, index |-> <<>>, rows |-> <<>>]
    /\ column_map = <<>>
    /\ default_currency = EmptyText
    /\ image_map = EmptyImageMap
    /\ sheet_name = <<>>
    /\ items = <<>>

IdleGuess ==
    /\ mapping = <<>>
    /\ calls = 0

IdlePrepare == prepared = <<>>

IdlePortal ==
    /\ uploaded_file = <<>>
    /\ extract_images = FALSE
    /\ item_choice = <<>>
    /\ catalog_data = <<>>
    /\ save_calls = <<>>
    /\ saved = 0
    /\ skipped = 0
    /\ message = ""

IdleCompare ==
    /\ project_items = <<>>
    /\ selected_suppliers = <<>>
    /\ stored_items = <<>>
    /\ comparison_rows = <<>>

IdleRfp ==
    /\ rfp_input = <<>>
    /\ rfp_email = <<>>
    /\ rfp_calls = 0

IdleNormalize ==
    /\ norm_value = NoneCell
    /\ norm_once = <<>>
    /\ norm_twice = <<>>

IdleStore ==
    /\ projects_file = <<>>
    /\ items_file = <<>>
    /\ now = 0
    /\ returned_ids = <<>>
    /\ pressed = <<>>

----------------------------------------------------------------------------
(* Specification of the matcher *)

InitMatch ==
    /\ pc = "start"
    /\ IdlePortal
    /\ IdleCompare
    /\ IdleRfp
    /\ IdleNormalize
    /\ IdleStore
    /\ \/ /\ proc_name \in Names
          /\ catalog_items \in Catalogs
       \/ /\ proc_name = ScenarioCName
          /\ catalog_items \in ScenarioCCatalogs
       \/ /\ proc_name \in NonAsciiNames
          /\ catalog_items \in {CatalogOf(<<n>>) : n \in NonAsciiNames}
    /\ match_result = <<>>
    /\ IdlePrice
    /\ IdleBuild
    /\ IdleGuess
    /\ IdlePrepare

MatchCatalogItem ==
    /\ pc = "start"
    /\ pc' = "_match_catalog_item"
    /\ match_result' = _match_catalog_item(proc_name, catalog_items)
    /\ UNCHANGED <<proc_name, catalog_items, priceVars, buildVars, guessVars, prepared,
                   portalVars, compareVars, rfpVars, normVars, storeVars>>

NextMatch == MatchCatalogItem

SpecMatch == InitMatch /\ [][NextMatch]_vars

(* Claims about the matcher *)

\* similarity of the procurement name and the i-th catalog item
ScoreAt(i) == _similarity_score(proc_name, catalog_items[i].item_name)

Matched == pc = "_match_catalog_item"

\* C1: _match_catalog_item returns a non-empty match if and only if the list
\* is non-empty and the maximum similarity over its items is >= 0.55; a
\* returned match has match_score >= 0.55, anything else is the empty dict.
C1_MatchIffFloorReached ==
    Matched =>
        /\ (match_result # <<>>) <=>
               /\ Len(catalog_items) > 0
               /\ \E i \in DOMAIN catalog_items : ScoreGE(ScoreAt(i), MinScore)
        /\ match_result # <<>> => ScoreGE(match_result[1].match_score, MinScore)

\* a match is returned from a list that also holds an item below the floor
C1_Witness ==
    /\ Matched
    /\ match_result # <<>>
    /\ \E i \in DOMAIN catalog_items : ~ScoreGE(ScoreAt(i), MinScore)

\* C2: a returned match is the first item, in catalog order, whose similarity
\* is the maximum over the list, and match_score is that maximum.
C2_FirstOfMaximum ==
    (Matched /\ match_result # <<>>) =>
        \E i \in DOMAIN catalog_items :
            /\ match_result[1].item = catalog_items[i]
            /\ ScoreEQ(match_result[1].match_score, ScoreAt(i))
            /\ \A j \in DOMAIN catalog_items : ScoreGE(ScoreAt(i), ScoreAt(j))
            /\ \A j \in 1..(i - 1) : ScoreGT(ScoreAt(i), ScoreAt(j))

\* a match is returned from a list in which a later item has the same score
C2_Witness ==
    /\ Matched
    /\ match_result # <<>>
    /\ \E i, j \in DOMAIN catalog_items :
            /\ i < j
            /\ match_result[1].item = catalog_items[i]
            /\ ScoreEQ(ScoreAt(i), ScoreAt(j))

----------------------------------------------------------------------------
(* _parse_price *)

\* the characters the regular expression [^0-9.\-] leaves in place
IsPriceChar(c) == c \in Range(Digits) \cup {".", "-"}

\* the regular expression without the minus sign: [^0-9.]
CleanPrice_nominus(t) == SelectSeq(t, LAMBDA c : c \in Range(Digits) \cup {"."})

\* re.sub(r'[^0-9.\-]', '', t)
CleanPrice(t) == SelectSeq(t, IsPriceChar)

DigitValue(c) == (CHOOSE i \in DOMAIN Digits : Digits[i] = c) - 1

RECURSIVE NatOfDigits(_)
\* the number a sequence of digits denotes (0 for no digit)
NatOfDigits(ds) ==
    IF ds = <<>> THEN 0
    ELSE 10 * NatOfDigits(SubSeq(ds, 1, Len(ds) - 1)) + DigitValue(ds[Len(ds)])

RECURSIVE Pow10(_)
Pow10(e) == IF e = 0 THEN 1 ELSE 10 * Pow10(e - 1)

IsDigit(c) == c \in Range(Digits)

\* whether float(t) accepts a text of digits, '.' and '-': an optional
\* leading minus sign, then digits with at most one decimal point and at
\* least one digit; anything else raises ValueError
FloatAccepts(t) ==
    LET body == IF t # <<>> /\ t[1] = "-" THEN Tail(t) ELSE t
    IN  /\ \A i \in DOMAIN body : body[i] # "-"
        /\ Cardinality({i \in DOMAIN body : body[i] = "."}) <= 1
        /\ \E i \in DOMAIN body : IsDigit(body[i])

\* float(t) of an accepted text, as <<numerator, denominator>>
FloatOf(t) ==
    LET body   == IF t[1] = "-" THEN Tail(t) ELSE t
        dots   == {i \in DOMAIN body : body[i] = "."}
        places == IF dots = {} THEN 0 ELSE Len(body) - (CHOOSE i \in dots : TRUE)
        mant   == NatOfDigits(SelectSeq(body, IsDigit))
    IN  <<IF t[1] = "-" THEN 0 - mant ELSE mant, Pow10(places)>>

\* _parse_price with "except ValueError: return 0.0"
_parse_price_zero(value) ==
    IF value.k = "None" \/ value.k = "nan" THEN <<>>
    ELSE LET cleaned == CleanPrice(StrOf(value))
         IN  IF cleaned = <<>> THEN <<>>
             ELSE IF FloatAccepts(cleaned) THEN <<FloatOf(cleaned)>>
             ELSE << <<0, 1>> >>

\* the returned float as a sequence of one number, <<>> for None
_parse_price(value) ==
    IF value.k = "None" \/ value.k = "nan" THEN <<>>
    ELSE LET cleaned == CleanPrice(StrOf(value))
         IN  IF cleaned = <<>> THEN <<>>
             ELSE IF FloatAccepts(cleaned) THEN <<FloatOf(cleaned)>>
             ELSE <<>>

\* equality of two numbers <<numerator, denominator>>
NumEQ(x, y) == x[1] * y[2] = y[1] * x[2]

----------------------------------------------------------------------------
(* Inputs of the price parser *)

PriceAlphabet == {"1", "0", ".", "-", "$"}

\* the price cells of the specification's scenarios
ScenarioPrices == { <<"$","1",",","2","5","0",".","5","0">>, <<"N","/","A">>, <<"1","0","-","1","5">> }

PriceCells ==
    {NoneCell, NanCell}
        \cup {TextCell(t) : t \in TextsUpTo(PriceAlphabet, MaxPriceLen) \cup ScenarioPrices}

----------------------------------------------------------------------------
(* Specification of the price parser *)

InitPrice ==
    /\ pc = "start"
    /\ IdlePortal
    /\ IdleCompare
    /\ IdleRfp
    /\ IdleNormalize
    /\ IdleStore
    /\ price_cell \in PriceCells
    /\ price_result = <<>>
    /\ IdleMatch
    /\ IdleBuild
    /\ IdleGuess
    /\ IdlePrepare

ParsePrice ==
    /\ pc = "start"
    /\ pc' = "_parse_price"
    /\ price_result' = _parse_price(price_cell)
    /\ UNCHANGED <<price_cell, matchVars, buildVars, guessVars, prepared,
                   portalVars, compareVars, rfpVars, normVars, storeVars>>

NextPrice == ParsePrice

SpecPrice == InitPrice /\ [][NextPrice]_vars

(* Claims about the price parser *)

Parsed == pc = "_parse_price"

\* the cleaning as the claim words it: digits and the decimal point stay, a
\* minus sign stays only when nothing that stays precedes it
LeadingMinusClean(t) ==
    LET stay == {i \in DOMAIN t : IsPriceChar(t[i])}
    IN  PickFrom(t, 1, {i \in stay : t[i] # "-" \/ \A j \in stay : i <= j})

\* C7 as stated: the result is the number left after deleting every character
\* except digits, the decimal point and a leading minus sign, so a minus sign
\* that is not leading is stripped before conversion.
C7_LeadingMinusOnly ==
    (Parsed /\ price_cell.k = "str") =>
        LET c == LeadingMinusClean(price_cell.s)
        IN  IF c # <<>> /\ FloatAccepts(c)
            THEN price_result # <<>> /\ NumEQ(price_result[1], FloatOf(c))
            ELSE price_result = <<>>

\* C7 amended: every digit, decimal point and minus sign of the text stays,
\* wherever it stands; the result is null when what stays is empty or is not
\* an optional leading minus sign followed by digits with at most one decimal
\* point, and is the number it denotes otherwise.  "$1,250.50" gives 1250.50,
\* "N/A" gives null, and the range "10-15" gives null.
C7_EveryMinusKept ==
    (Parsed /\ price_cell.k = "str") =>
        LET t      == price_cell.s
            stay   == PickFrom(t, 1, {i \in DOMAIN t : t[i] \in Range(Digits) \cup {".", "-"}})
            minus  == {i \in DOMAIN stay : stay[i] = "-"}
            dots   == {i \in DOMAIN stay : stay[i] = "."}
            digits == SelectSeq(stay, IsDigit)
            wellformed == /\ minus \subseteq {1}
                          /\ Cardinality(dots) <= 1
                          /\ digits # <<>>
            places == IF dots = {} THEN 0
                      ELSE Len(stay) - (CHOOSE i \in dots : TRUE)
            sign   == IF minus = {} THEN 1 ELSE 0 - 1
        IN  /\ IF wellformed
               THEN /\ price_result # <<>>
                    /\ price_result[1][1] * Pow10(places)
                           = sign * NatOfDigits(digits) * price_result[1][2]
               ELSE price_result = <<>>
            /\ t = <<"$","1",",","2","5","0",".","5","0">> => NumEQ(price_result[1], <<125050, 100>>)
            /\ t = <<"N","/","A">> => price_result = <<>>
            /\ t = <<"1","0","-","1","5">> => price_result = <<>>

\* the range "10-15" has been parsed, and the result is null
C7_Witness ==
    /\ Parsed
    /\ price_cell = TextCell(<<"1","0","-","1","5">>)
    /\ price_result = <<>>

----------------------------------------------------------------------------
(* _build_catalog_items *)

Roles == <<"item", "description", "specification", "unit", "price", "currency", "photo">>

RoleSet == Range(Roles)

SourceRowLabel == TextCell(<<"_","s","o","u","r","c","e","_","r","o","w">>)

\* row.get(key, default) on a row of a table with these column labels (the
\* labels of the tables built here are distinct)
RowGet(columns, row, key, default) ==
    IF \E i \in DOMAIN columns : columns[i] = key
    THEN row[CHOOSE i \in DOMAIN columns :
                /\ columns[i] = key
                /\ \A j \in 1..(i - 1) : columns[j] # key]
    ELSE default

\* int(value): <<n>>, or <<>> where int() raises TypeError or ValueError
IntOf(v) ==
    CASE v.k = "int" -> <<v.n>>
      [] v.k = "float" ->
            LET neg   == v.s[1] = "-"
                body  == IF neg THEN Tail(v.s) ELSE v.s
                whole == SubSeq(body, 1, (CHOOSE i \in DOMAIN body : body[i] = ".") - 1)
            IN  <<IF neg THEN 0 - NatOfDigits(whole) ELSE NatOfDigits(whole)>>
      [] v.k = "str" ->
            LET t    == StripText(v.s)
                neg  == t # <<>> /\ t[1] = "-"
                body == IF t # <<>> /\ t[1] \in {"-", "+"} THEN Tail(t) ELSE t
            IN  IF body # <<>> /\ \A i \in DOMAIN body : IsDigit(body[i])
                THEN <<IF neg THEN 0 - NatOfDigits(body) ELSE NatOfDigits(body)>>
                ELSE <<>>
      [] OTHER -> <<>>

\* str(row.get(item_col, '')).strip()
ItemNameOf(columns, row, cm) ==
    StripText(StrOf(RowGet(columns, row, cm["item"], EmptyText)))

\* the rows the loop passes over: "not item_name or item_name.lower() == 'nan'"
SkipsRow(columns, row, cm) ==
    LET item_name == ItemNameOf(columns, row, cm)
    IN  item_name = <<>> \/ LowerText(item_name) = <<"n","a","n">>

\* price_value
PriceValueOf(columns, row, cm) ==
    IF Truthy(cm["price"])
    THEN _parse_price(RowGet(columns, row, cm["price"], NoneCell))
    ELSE <<>>

\* currency_value: the cell as it is when the role is resolved
CurrencyValueOf(columns, row, cm, dcurrency) ==
    IF Truthy(cm["currency"])
    THEN RowGet(columns, row, cm["currency"], dcurrency)
    ELSE dcurrency

\* source_row: <<>> for None
SourceRowOf(columns, row) ==
    LET v == RowGet(columns, row, SourceRowLabel, NoneCell)
    IN  IF v.k = "None" THEN <<>> ELSE IntOf(v)

\* the lookup by row alone: an image of any sheet with that row is taken
ImagePathOf_anysheet(imap, sheet, source_row) ==
    IF /\ DOMAIN imap # {}
       /\ source_row # <<>>
       /\ source_row[1] # 0
       /\ \E key \in DOMAIN imap : key[2] = source_row[1]
    THEN imap[CHOOSE key \in DOMAIN imap : key[2] = source_row[1]]
    ELSE <<>>

\* image_path or ''
ImagePathOf(imap, sheet, source_row) ==
    IF /\ DOMAIN imap # {}
       /\ source_row # <<>>
       /\ source_row[1] # 0
       /\ <<sheet, source_row[1]>> \in DOMAIN imap
    THEN imap[<<sheet, source_row[1]>>]
    ELSE <<>>

\* str(row.get(column_map.get(role, ''), '')).strip()
TextFieldOf(columns, row, cm, role) ==
    StripText(StrOf(RowGet(columns, row, cm[role], EmptyText)))

\* the item with price_available taken from the column map, not from the price
ItemOfRow_flagfrommap(columns, row, cm, dcurrency, imap, sheet) ==
    [item_name       |-> ItemNameOf(columns, row, cm),
     description     |-> TextFieldOf(columns, row, cm, "description"),
     specification   |-> TextFieldOf(columns, row, cm, "specification"),
     unit            |-> TextFieldOf(columns, row, cm, "unit"),
     price           |-> PriceValueOf(columns, row, cm),
     currency        |-> CurrencyValueOf(columns, row, cm, dcurrency),
     price_available |-> Truthy(cm["price"]),
     photo_ref       |-> TextFieldOf(columns, row, cm, "photo"),
     image_path      |-> ImagePathOf(imap, sheet, SourceRowOf(columns, row)),
     source_row      |-> SourceRowOf(columns, row)]

\* the dict appended for a row that is not passed over
ItemOfRow(columns, row, cm, dcurrency, imap, sheet) ==
    [item_name       |-> ItemNameOf(columns, row, cm),
     description     |-> TextFieldOf(columns, row, cm, "description"),
     specification   |-> TextFieldOf(columns, row, cm, "specification"),
     unit            |-> TextFieldOf(columns, row, cm, "unit"),
     price           |-> PriceValueOf(columns, row, cm),
     currency        |-> CurrencyValueOf(columns, row, cm, dcurrency),
     price_available |-> PriceValueOf(columns, row, cm) # <<>>,
     photo_ref       |-> TextFieldOf(columns, row, cm, "photo"),
     image_path      |-> ImagePathOf(imap, sheet, SourceRowOf(columns, row)),
     source_row      |-> SourceRowOf(columns, row)]

RECURSIVE ItemsFrom(_, _, _, _, _, _)
\* the for loop over df.iterrows() from row i on
ItemsFrom(table, i, cm, dcurrency, imap, sheet) ==
    IF i > Len(table.rows) THEN <<>>
    ELSE (IF SkipsRow(table.columns, table.rows[i], cm) THEN <<>>
          ELSE <<ItemOfRow(table.columns, table.rows[i], cm, dcurrency, imap, sheet)>>)
         \o ItemsFrom(table, i + 1, cm, dcurrency, imap, sheet)

_build_catalog_items(table, cm, dcurrency, imap, sheet) ==
    IF ~Truthy(cm["item"]) THEN <<>>
    ELSE ItemsFrom(table, 1, cm, dcurrency, imap, sheet)

----------------------------------------------------------------------------
(* Inputs of the item builder: a table as the CSV loader hands it over,    *)
(* with an item, a price and a currency column and the _source_row column  *)
(* stamped index + 1                                                       *)

ItemLabel == TextCell(<<"I","t","e","m">>)

PriceLabel == TextCell(<<"P","r","i","c","e">>)

CurrencyLabel == TextCell(<<"C","u","r","r","e","n","c","y">>)

\* item-name cells: missing (None as a PDF grid has it, NaN), blank,
\* whitespace only, the text NaN, and a name
ItemCells ==
    {NoneCell, NanCell, EmptyText, TextCell(<<" ", " ">>),
     TextCell(<<"N","a","N">>), TextCell(<<" ","B","e","d">>)}

\* price cells: missing, no digit, a range, zero, and a price
PriceColumnCells ==
    {NoneCell, NanCell, TextCell(<<"N","/","A">>), TextCell(<<"1","0","-","1","5">>),
     TextCell(<<"0">>), TextCell(<<"$","1",",","2","5","0",".","5","0">>)}

\* currency cells: missing, blank, and a currency
CurrencyCells == {NoneCell, NanCell, EmptyText, TextCell(<<"E","U","R">>)}

\* the rows: every item-name cell beside a priced row, and every price and
\* currency cell beside a named row (a row is passed over before its price
\* and currency cells are read)
RowCells ==
    {<<i, TextCell(<<"$","1",",","2","5","0",".","5","0">>), TextCell(<<"E","U","R">>)>> : i \in ItemCells}
        \cup {<<TextCell(<<" ","B","e","d">>), p, c>> : p \in PriceColumnCells, c \in CurrencyCells}

\* the loader's  df['_source_row'] = df.index + 1  on the row labels 0..n-1:
\* the i-th row has label i - 1
Stamped(cells) == [i \in DOMAIN cells |-> cells[i] \o <<IntCell(i)>>]

Tables ==
    {[columns |-> <<ItemLabel, PriceLabel, CurrencyLabel, SourceRowLabel>>,
      index   |-> [i \in DOMAIN cells |-> i - 1],
      rows    |-> Stamped(cells)] :
        cells \in UNION {[1..m -> RowCells] : m \in 0..MaxRows}}

\* the column maps: each of item, price and currency resolved or not
ColumnMaps ==
    {[r \in RoleSet |->
        CASE r = "item"     -> i
          [] r = "price"    -> p
          [] r = "currency" -> c
          [] OTHER          -> EmptyText] :
        i \in {EmptyText, ItemLabel},
        p \in {EmptyText, PriceLabel},
        c \in {EmptyText, CurrencyLabel}}

\* the column map with the item role alone resolved
ItemOnlyMap ==
    [r \in RoleSet |-> IF r = "item" THEN ItemLabel ELSE EmptyText]

\* _source_row cells: stamped 1 and 2, 0, missing, NaN and a text
SourceRowCells ==
    {IntCell(1), IntCell(2), IntCell(0), NoneCell, NanCell, TextCell(<<"x">>)}

\* tables for image linking: named and unnamed rows, with a _source_row
\* column or without one
ImageTables ==
    {[columns |-> <<ItemLabel, SourceRowLabel>>,
      index   |-> [i \in DOMAIN rs |-> i - 1],
      rows    |-> rs] :
        rs \in UNION {[1..m -> {<<n, r>> : n \in {TextCell(<<" ","B","e","d">>), NanCell},
                                           r \in SourceRowCells}] :
                         m \in 0..MaxRows}}
    \cup
    {[columns |-> <<ItemLabel>>,
      index   |-> [i \in DOMAIN rs |-> i - 1],
      rows    |-> rs] :
        rs \in UNION {[1..m -> {<<TextCell(<<" ","B","e","d">>)>>, <<NanCell>>}] :
                         m \in 0..MaxRows}}

\* the sheet names of a call: '' and a sheet title
BuildSheets == {<<>>, <<"S","1">>}

\* the path written for the image of a sheet and row
ImagePath(sheet, row) == <<sheet, row, 1>>

\* image maps as the extractor returns them (rows are 1-based): none, an
\* image at row 1 of the sheet, images at rows 2 and 9, and an image at row
\* 1 of another sheet
ImageMaps ==
    { EmptyImageMap,
      [key \in {<<<<"S","1">>, 1>>} |-> ImagePath(key[1], key[2])],
      [key \in {<<<<"S","1">>, 2>>, <<<<"S","1">>, 9>>} |-> ImagePath(key[1], key[2])],
      [key \in {<<<<"S","2">>, 1>>} |-> ImagePath(key[1], key[2])] }

----------------------------------------------------------------------------
(* Specification of the item builder *)

InitBuild ==
    /\ pc = "start"
    /\ IdlePortal
    /\ IdleCompare
    /\ IdleRfp
    /\ IdleNormalize
    /\ IdleStore
    /\ df \in Tables
    /\ column_map \in ColumnMaps
    /\ default_currency = TextCell(<<"U","S","D">>)
    /\ image_map = EmptyImageMap
    /\ sheet_name = <<>>
    /\ items = <<>>
    /\ IdleMatch
    /\ IdlePrice
    /\ IdleGuess
    /\ IdlePrepare

BuildCatalogItems ==
    /\ pc = "start"
    /\ pc' = "_build_catalog_items"
    /\ items' = _build_catalog_items(df, column_map, default_currency,
                                     image_map, sheet_name)
    /\ UNCHANGED <<df, column_map, default_currency, image_map, sheet_name,
                   matchVars, priceVars, guessVars, prepared,
                   portalVars, compareVars, rfpVars, normVars, storeVars>>

NextBuild == BuildCatalogItems

SpecBuild == InitBuild /\ [][NextBuild]_vars

\* the builder called with an image map: the same call on the tables and
\* maps of image linking
InitLink ==
    /\ pc = "start"
    /\ IdlePortal
    /\ IdleCompare
    /\ IdleRfp
    /\ IdleNormalize
    /\ IdleStore
    /\ df \in ImageTables
    /\ column_map \in {ItemOnlyMap, [ItemOnlyMap EXCEPT !["item"] = EmptyText]}
    /\ default_currency = TextCell(<<"U","S","D">>)
    /\ image_map \in ImageMaps
    /\ sheet_name \in BuildSheets
    /\ items = <<>>
    /\ IdleMatch
    /\ IdlePrice
    /\ IdleGuess
    /\ IdlePrepare

SpecLink == InitLink /\ [][NextBuild]_vars

(* Claims about the item builder *)

Built == pc = "_build_catalog_items"

\* the cell of row i in the column with this label
CellAt(i, label) ==
    df.rows[i][CHOOSE c \in DOMAIN df.columns : df.columns[c] = label]

\* the items built from row i of the table
ItemsOfRow(i) == {k \in DOMAIN items : items[k].source_row = <<i>>}

\* a cell without content: missing (None, NaN) or a blank text
IsBlankCell(v) ==
    \/ v.k \in {"None", "nan"}
    \/ v.k = "str" /\ StripText(v.s) = <<>>

\* an item-name cell that is empty in the claim's sense: blank, or the text nan
IsEmptyNameCell(v) ==
    \/ IsBlankCell(v)
    \/ v.k = "str" /\ LowerText(StripText(v.s)) = <<"n","a","n">>

\* C3: _build_catalog_items never returns an item with an empty item_name and
\* builds no item from a row whose item-name cell is blank, whitespace only,
\* the text nan, NaN or None; with the item role unresolved it returns no item.
C3_NoItemWithoutName ==
    Built =>
        /\ \A k \in DOMAIN items : items[k].item_name # <<>>
        /\ Truthy(column_map["item"]) =>
               \A i \in DOMAIN df.rows :
                   IsEmptyNameCell(CellAt(i, column_map["item"])) => ItemsOfRow(i) = {}
        /\ ~Truthy(column_map["item"]) => items = <<>>

\* C4: every built item has price_available = (price is not null).
C4_PriceAvailableIffPrice ==
    Built => \A k \in DOMAIN items :
                 items[k].price_available = (items[k].price # <<>>)

\* with the price role resolved, one built item has a price and one has none
C4_Witness ==
    /\ Built
    /\ Truthy(column_map["price"])
    /\ \E k1, k2 \in DOMAIN items :
           items[k1].price = <<>> /\ items[k2].price # <<>>

\* a price cell that cannot be parsed: a text without a digit, or one whose
\* digits, decimal points and minus signs do not make a number
IsUnparseable(v) ==
    /\ v.k = "str"
    /\ \/ \A i \in DOMAIN v.s : ~IsDigit(v.s[i])
       \/ ~FloatAccepts(SelectSeq(v.s, IsPriceChar))

\* a price cell whose text is numerically zero
IsZeroCell(v) ==
    /\ v.k = "str"
    /\ \E i \in DOMAIN v.s : IsDigit(v.s[i])
    /\ \A i \in DOMAIN v.s : IsDigit(v.s[i]) => v.s[i] = "0"

\* C8: a named row whose price cell cannot be parsed still yields its item,
\* with price null and price_available false; a price is 0 only when the
\* cell's text is numerically zero.
C8_UnparsedPriceKeepsItem ==
    (Built /\ Truthy(column_map["item"])) =>
        \A i \in DOMAIN df.rows :
            LET name == CellAt(i, column_map["item"])
            IN  (name.k = "str" /\ ~IsEmptyNameCell(name)) =>
                    /\ Cardinality(ItemsOfRow(i)) = 1
                    /\ \A k \in ItemsOfRow(i) :
                           /\ ( /\ Truthy(column_map["price"])
                                /\ IsUnparseable(CellAt(i, column_map["price"])) )
                                  => (items[k].price = <<>> /\ ~items[k].price_available)
                           /\ (items[k].price # <<>> /\ items[k].price[1][1] = 0)
                                  => ( /\ Truthy(column_map["price"])
                                       /\ IsZeroCell(CellAt(i, column_map["price"])) )

\* an item has been built from a row whose price cell is the range "10-15"
C8_Witness ==
    /\ Built
    /\ Truthy(column_map["price"])
    /\ \E i \in DOMAIN df.rows :
           /\ CellAt(i, column_map["price"]) = TextCell(<<"1","0","-","1","5">>)
           /\ \E k \in ItemsOfRow(i) : items[k].price = <<>>

\* C9: every built item has a currency string: the row's currency cell when
\* the currency role is resolved and the cell is non-empty, and the default
\* currency otherwise, also for a resolved column whose cell is empty or
\* missing.
C9_CurrencyOrDefault ==
    Built =>
        \A k \in DOMAIN items :
            LET i == items[k].source_row[1]
            IN  /\ items[k].currency.k = "str"
                /\ items[k].currency =
                       IF /\ Truthy(column_map["currency"])
                          /\ ~IsBlankCell(CellAt(i, column_map["currency"]))
                       THEN CellAt(i, column_map["currency"])
                       ELSE default_currency

----------------------------------------------------------------------------
(* _guess_column_map *)

\* the keyword list of each role
Keywords(role) ==
    CASE role = "item"          -> 
            {<<"i","t","e","m">>,
             <<"n","a","m","e">>,
             <<"p","r","o","d","u","c","t">>,
             <<"t","i","t","l","e">>,
             <<"s","k","u">>,
             <<"c","o","d","e">>,
             <<"a","r","t","i","c","l","e">>}
      [] role = "description"   -> 
            {<<"d","e","s","c">>,
             <<"d","e","s","c","r","i","p","t","i","o","n">>,
             <<"d","e","t","a","i","l","s">>}
      [] role = "specification" -> 
            {<<"s","p","e","c">>,
             <<"s","p","e","c","i","f","i","c","a","t","i","o","n">>,
             <<"s","t","a","n","d","a","r","d">>}
      [] role = "unit"          -> 
            {<<"u","n","i","t">>,
             <<"u","o","m">>,
             <<"m","e","a","s","u","r","e">>}
      [] role = "price"         -> 
            {<<"p","r","i","c","e">>,
             <<"c","o","s","t">>,
             <<"r","a","t","e">>,
             <<"a","m","o","u","n","t">>}
      [] role = "currency"      -> 
            {<<"c","u","r","r","e","n","c","y">>,
             <<"c","u","r","r">>}
      [] role = "photo"         -> 
            {<<"p","h","o","t","o">>,
             <<"i","m","a","g","e">>,
             <<"p","i","c","t","u","r","e">>,
             <<"p","i","c">>}

\* any(k in normalized for k in [...])
HasKeyword(normalized, role) ==
    \E k \in Keywords(role) : Contains(normalized, k)

\* the initial mapping: every role ''
EmptyMapping == [r \in RoleSet |-> EmptyText]

\* the loop body with "if" in place of every "elif": a column takes every
\* unresolved role it has a keyword of
StepColumn_everyrole(map, col) ==
    IF StartsWith(StrOf(col), <<"_">>) THEN map
    ELSE [r \in RoleSet |->
            IF ~Truthy(map[r]) /\ HasKeyword(_normalize_text(col), r)
            THEN col ELSE map[r]]

\* the loop body without the "not mapping[...]" tests: a later column takes
\* a role an earlier column holds
StepColumn_lastwins(map, col) ==
    IF StartsWith(StrOf(col), <<"_">>) THEN map
    ELSE LET normalized == _normalize_text(col)
             hit == {i \in DOMAIN Roles : HasKeyword(normalized, Roles[i])}
         IN  IF hit = {} THEN map
             ELSE [map EXCEPT
                      ![Roles[CHOOSE i \in hit : \A j \in hit : i <= j]] = col]

\* the loop body: the if / elif chain gives the column the first role, in the
\* order of Roles, that is unresolved and has a keyword in the label
StepColumn(map, col) ==
    IF StartsWith(StrOf(col), <<"_">>) THEN map
    ELSE LET normalized == _normalize_text(col)
             free == {i \in DOMAIN Roles :
                         /\ ~Truthy(map[Roles[i]])
                         /\ HasKeyword(normalized, Roles[i])}
         IN  IF free = {} THEN map
             ELSE [map EXCEPT
                      ![Roles[CHOOSE i \in free : \A j \in free : i <= j]] = col]

RECURSIVE GuessFrom(_, _, _)
\* the for loop over df.columns from column i on
GuessFrom(columns, i, map) ==
    IF i > Len(columns) THEN map
    ELSE GuessFrom(columns, i + 1, StepColumn(map, columns[i]))

_guess_column_map(table) == GuessFrom(table.columns, 1, EmptyMapping)

----------------------------------------------------------------------------
(* Inputs of the classifier: tables whose column labels are header texts   *)
(* of supplier files, a label with the marker prefix, and the integer      *)
(* label of a grid read without a header                                   *)

ColumnLabels ==
    {TextCell(t) : t \in 
        {<<"P","r","o","d","u","c","t"," ","C","o","d","e">>,
         <<"I","t","e","m"," ","D","e","s","c","r","i","p","t","i","o","n">>,
         <<"R","a","t","e"," ","(","U","S","D",")">>,
         <<"I","t","e","m"," ","P","r","i","c","e">>,
         <<"U","n","i","t"," ","P","r","i","c","e">>,
         <<"C","u","r","r","e","n","c","y">>,
         <<"P","h","o","t","o"," ","D","e","t","a","i","l","s">>,
         <<"S","t","a","n","d","a","r","d"," ","C","o","s","t">>,
         <<"_","s","k","u">>,
         <<"Q","t","y">>}} \cup {IntCell(0)}

GuessTables ==
    {[columns |-> cs, index |-> <<>>, rows |-> <<>>] :
        cs \in UNION {[1..m -> ColumnLabels] : m \in 0..MaxCols}}

----------------------------------------------------------------------------
(* Specification of the classifier *)

InitGuess ==
    /\ pc = "start"
    /\ IdlePortal
    /\ IdleCompare
    /\ IdleRfp
    /\ IdleNormalize
    /\ IdleStore
    /\ df \in GuessTables
    /\ mapping = <<>>
    /\ calls = 0
    /\ column_map = <<>>
    /\ default_currency = EmptyText
    /\ image_map = EmptyImageMap
    /\ sheet_name = <<>>
    /\ items = <<>>
    /\ IdleMatch
    /\ IdlePrice
    /\ IdlePrepare

GuessColumnMap ==
    /\ calls < MaxCalls
    /\ pc' = "_guess_column_map"
    /\ mapping' = _guess_column_map(df)
    /\ calls' = calls + 1
    /\ UNCHANGED <<matchVars, priceVars, buildVars, prepared,
                   portalVars, compareVars, rfpVars, normVars, storeVars>>

NextGuess == GuessColumnMap

SpecGuess == InitGuess /\ [][NextGuess]_vars

(* Claims about the classifier *)

Guessed == pc = "_guess_column_map"

\* a column the loop does not skip
IsEligible(col) == ~StartsWith(StrOf(col), <<"_">>)

\* C5: the map gives each role at most one column and no column two roles;
\* every assigned value is a column label of the table that does not begin
\* with '_'.  (A role holds one label; the roles holding a label are never
\* more than the columns bearing it.)
C5_OneColumnPerRole ==
    Guessed =>
        /\ DOMAIN mapping = RoleSet
        /\ \A r \in RoleSet :
               Truthy(mapping[r]) =>
                   /\ mapping[r] \in Range(df.columns)
                   /\ IsEligible(mapping[r])
                   /\ Cardinality({q \in RoleSet : mapping[q] = mapping[r]})
                          <= Cardinality({i \in DOMAIN df.columns :
                                             df.columns[i] = mapping[r]})

\* two roles are resolved, and a column with the marker prefix and an item
\* keyword is in the table
C5_Witness ==
    /\ Guessed
    /\ Cardinality({r \in RoleSet : Truthy(mapping[r])}) >= 2
    /\ \E i \in DOMAIN df.columns :
           /\ ~IsEligible(df.columns[i])
           /\ HasKeyword(_normalize_text(df.columns[i]), "item")

\* the role of a column as the claim words it, given the roles of the
\* columns before it: the first role, in priority order, that has a keyword
\* in the column's normalized label and that no earlier column has been
\* given; 0 when there is none or the column is not eligible
RoleAfter(earlier, col) ==
    LET open == {r \in DOMAIN Roles :
                    /\ IsEligible(col)
                    /\ r \notin Range(earlier)
                    /\ HasKeyword(_normalize_text(col), Roles[r])}
    IN  IF open = {} THEN 0 ELSE CHOOSE r \in open : \A q \in open : r <= q

RECURSIVE RolesOfColumns(_, _)
\* the roles of the first n columns, in table order
RolesOfColumns(columns, n) ==
    IF n = 0 THEN <<>>
    ELSE LET earlier == RolesOfColumns(columns, n - 1)
         IN  Append(earlier, RoleAfter(earlier, columns[n]))

\* C6 (state part): each role holds the label of the column that is given
\* that role, and '' when no column is
C6_RolesInPriorityOrder ==
    Guessed =>
        LET role == RolesOfColumns(df.columns, Len(df.columns))
        IN  \A r \in DOMAIN Roles :
                LET at == {i \in DOMAIN df.columns : role[i] = r}
                IN  IF at = {} THEN mapping[Roles[r]] = EmptyText
                    ELSE \A i \in at : mapping[Roles[r]] = df.columns[i]

\* C6: _guess_column_map gives each eligible column, in table order, the
\* first role in the order item > description > specification > unit > price
\* > currency > photo that is still unresolved and has a keyword in the
\* normalized label, a column that loses a role to an earlier column staying
\* eligible for later roles; a call leaves the table unchanged, and a second
\* call on the same table returns the same map.
C6_FirstFreeRoleDeterministic ==
    /\ [] C6_RolesInPriorityOrder
    /\ [][ /\ df' = df
           /\ Guessed => mapping' = mapping ]_vars

\* after a second call: a column with an item keyword lost the item role to
\* an earlier column and holds the description role
C6_Witness ==
    /\ Guessed
    /\ calls = 2
    /\ \E i, j \in DOMAIN df.columns :
           /\ i < j
           /\ mapping["item"] = df.columns[i]
           /\ HasKeyword(_normalize_text(df.columns[j]), "item")
           /\ mapping["description"] = df.columns[j]
           /\ df.columns[i] # df.columns[j]

----------------------------------------------------------------------------
(* _detect_header_row and _prepare_dataframe *)

\* the keywords of a header row
HeaderKeys ==
    {<<"i","t","e","m">>,
     <<"d","e","s","c","r","i","p","t","i","o","n">>,
     <<"s","p","e","c">>,
     <<"u","n","i","t">>,
     <<"q","t","y">>,
     <<"p","r","i","c","e">>,
     <<"v","e","n","d","o","r">>,
     <<"a","r","t","i","c","l","e">>,
     <<"p","h","o","t","o">>}

EmptyTable == [columns |-> <<>>, index |-> <<>>, rows |-> <<>>]

\* a missing value, as dropna sees it
IsNA(v) == v.k \in {"None", "nan"}

\* values: the stripped str of every cell that is not '' and not 'nan'
HeaderValues(row) ==
    SelectSeq([c \in DOMAIN row |-> StripText(StrOf(row[c]))],
              LAMBDA t : t # <<>> /\ LowerText(t) # <<"n","a","n">>)

RECURSIVE JoinTexts(_)
\* ' '.join(values)
JoinTexts(ts) ==
    IF ts = <<>> THEN <<>>
    ELSE IF Len(ts) = 1 THEN ts[1]
    ELSE ts[1] \o <<" ">> \o JoinTexts(Tail(ts))

\* the two tests of the loop body: at least 3 values, and a key in the join
IsHeaderRow(row) ==
    LET values == HeaderValues(row)
    IN  /\ ~(Len(values) < 3)
        /\ \E key \in HeaderKeys : Contains(LowerText(JoinTexts(values)), key)

RECURSIVE DetectFrom_last(_, _, _)
\* the scan without the early return: the last qualifying row's label
DetectFrom_last(table, i, found) ==
    IF i > Len(table.rows) THEN found
    ELSE DetectFrom_last(table, i + 1,
             IF IsHeaderRow(table.rows[i]) THEN table.index[i] ELSE found)

_detect_header_row_last(table) == DetectFrom_last(table, 1, 0 - 1)

RECURSIVE DetectFrom(_, _)
\* the for loop over df.iterrows() from row i on: the index label of the
\* first qualifying row, -1 when there is none
DetectFrom(table, i) ==
    IF i > Len(table.rows) THEN 0 - 1
    ELSE IF IsHeaderRow(table.rows[i]) THEN table.index[i]
    ELSE DetectFrom(table, i + 1)

_detect_header_row(table) == DetectFrom(table, 1)

\* dropna with how='any': a column stays only when every row has a value in it
DropEmptyColumns_any(table) ==
    LET keep == {c \in DOMAIN table.columns :
                    \A r \in DOMAIN table.rows : ~IsNA(table.rows[r][c])}
    IN  [columns |-> PickFrom(table.columns, 1, keep),
         index   |-> table.index,
         rows    |-> [r \in DOMAIN table.rows |-> PickFrom(table.rows[r], 1, keep)]]

\* df.dropna(axis=1, how='all'): a column stays when some row has a value in it
DropEmptyColumns(table) ==
    LET keep == {c \in DOMAIN table.columns :
                    \E r \in DOMAIN table.rows : ~IsNA(table.rows[r][c])}
    IN  [columns |-> PickFrom(table.columns, 1, keep),
         index   |-> table.index,
         rows    |-> [r \in DOMAIN table.rows |-> PickFrom(table.rows[r], 1, keep)]]

\* df.dropna(axis=0, how='all'): a row stays when it has a value in some column
DropEmptyRows(table) ==
    LET keep == {r \in DOMAIN table.rows :
                    \E c \in DOMAIN table.rows[r] : ~IsNA(table.rows[r][c])}
    IN  [columns |-> table.columns,
         index   |-> PickFrom(table.index, 1, keep),
         rows    |-> PickFrom(table.rows, 1, keep)]

\* the stamp taken from a compacted index: 1, 2, ... over the rows kept
StampSourceRow_renumber(table) ==
    [columns |-> Append(table.columns, SourceRowLabel),
     index   |-> table.index,
     rows    |-> [r \in DOMAIN table.rows |-> Append(table.rows[r], IntCell(r))]]

\* cleaned['_source_row'] = cleaned.index + 1  (no promoted label of the
\* tables built here is '_source_row')
StampSourceRow(table) ==
    [columns |-> Append(table.columns, SourceRowLabel),
     index   |-> table.index,
     rows    |-> [r \in DOMAIN table.rows |->
                     Append(table.rows[r], IntCell(table.index[r] + 1))]]

\* any(str(col).startswith('Unnamed:') for col in df.columns)
HasPlaceholder(table) ==
    \E c \in DOMAIN table.columns :
        StartsWith(StrOf(table.columns[c]), <<"U","n","n","a","m","e","d",":">>)

\* the result of a call: the table returned, or the exception raised
Returned(table) == [raised |-> "", table |-> table]

Raised(exception) == [raised |-> exception, table |-> EmptyTable]

\* df.iloc[header_idx] and df.iloc[header_idx + 1:] take the row at the
\* 0-based position header_idx and the rows after that position
_prepare_dataframe(table) ==
    IF ~HasPlaceholder(table) THEN Returned(DropEmptyColumns(table))
    ELSE LET header_idx == _detect_header_row(table)
         IN  IF header_idx = 0 - 1 THEN Returned(DropEmptyColumns(table))
             ELSE IF header_idx + 1 > Len(table.rows) THEN Raised("IndexError")
             ELSE LET header_row ==
                          [c \in DOMAIN table.columns |->
                              TextCell(StrOf(table.rows[header_idx + 1][c]))]
                      below == {r \in DOMAIN table.rows : r > header_idx + 1}
                      cleaned ==
                          [columns |-> header_row,
                           index   |-> PickFrom(table.index, 1, below),
                           rows    |-> PickFrom(table.rows, 1, below)]
                  IN  Returned(StampSourceRow(
                          DropEmptyRows(DropEmptyColumns(cleaned))))

----------------------------------------------------------------------------
(* Inputs of the normalizer: grids of three columns, labelled with         *)
(* placeholders or with the integers of a grid read without a header, the  *)
(* row labels starting at 0 or, as after df.iloc[1:], at 1                  *)

PlaceholderColumns ==
    <<TextCell(<<"U","n","n","a","m","e","d",":"," ","0">>), TextCell(<<"U","n","n","a","m","e","d",":"," ","1">>), TextCell(<<"U","n","n","a","m","e","d",":"," ","2">>)>>

IntegerColumns == <<IntCell(0), IntCell(1), IntCell(2)>>

\* an empty row, a row with one keyword cell, a title row with one keyword,
\* a header row of three keyword cells, two data rows, and a row whose empty
\* cells are None
GridRows ==
    { <<NanCell, NanCell, NanCell>>,
      <<TextCell(<<"I","t","e","m">>), NanCell, NanCell>>,
      <<TextCell(<<"P","r","i","c","e"," ","l","i","s","t">>), TextCell(<<"2","0","2","4">>), TextCell(<<"A","C","M","E">>)>>,
      <<TextCell(<<"I","t","e","m">>), TextCell(<<"U","n","i","t">>), TextCell(<<"P","r","i","c","e">>)>>,
      <<TextCell(<<"B","e","d">>), TextCell(<<"p","c">>), TextCell(<<"4","5","0">>)>>,
      <<TextCell(<<"S","o","f","a">>), NanCell, TextCell(<<"4","5","0">>)>>,
      <<TextCell(<<"I","t","e","m">>), NoneCell, NoneCell>> }

Grids ==
    {[columns |-> cs,
      index   |-> [i \in DOMAIN rs |-> start + i - 1],
      rows    |-> rs] :
        cs \in {PlaceholderColumns, IntegerColumns},
        start \in {0, 1},
        rs \in UNION {[1..m -> GridRows] : m \in 0..MaxGridRows}}

\* tables of one column, labelled with a placeholder or with a text, and the
\* table without columns: an empty cell, a keyword cell and a data cell
NarrowGrids ==
    {[columns |-> <<c>>,
      index   |-> [i \in DOMAIN rs |-> i - 1],
      rows    |-> [i \in DOMAIN rs |-> <<rs[i]>>]] :
        c  \in {PlaceholderColumns[1], TextCell(<<"I","t","e","m">>)},
        rs \in UNION {[1..m -> {NanCell, TextCell(<<"I","t","e","m">>),
                                TextCell(<<"B","e","d">>)}] :
                         m \in 0..MaxGridRows}}
    \cup {EmptyTable}

----------------------------------------------------------------------------
(* Specification of the normalizer *)

InitPrepare ==
    /\ pc = "start"
    /\ IdlePortal
    /\ IdleCompare
    /\ IdleRfp
    /\ IdleNormalize
    /\ IdleStore
    /\ df \in Grids \cup NarrowGrids
    /\ prepared = <<>>
    /\ column_map = <<>>
    /\ default_currency = EmptyText
    /\ image_map = EmptyImageMap
    /\ sheet_name = <<>>
    /\ items = <<>>
    /\ IdleMatch
    /\ IdlePrice
    /\ IdleGuess

PrepareDataframe ==
    /\ pc = "start"
    /\ pc' = "_prepare_dataframe"
    /\ prepared' = _prepare_dataframe(df)
    /\ UNCHANGED <<matchVars, priceVars, buildVars, guessVars,
                   portalVars, compareVars, rfpVars, normVars, storeVars>>

NextPrepare == PrepareDataframe

SpecPrepare == InitPrepare /\ [][NextPrepare]_vars

(* Claims about the normalizer *)

Prepared == pc = "_prepare_dataframe"

\* the cells of a row that hold a text with a header keyword in it
KeywordCells(row) ==
    {c \in DOMAIN row :
        /\ row[c].k = "str"
        /\ \E key \in HeaderKeys : Contains(LowerText(row[c].s), key)}

\* the cells of a row the scan counts: str(v).strip() is neither '' nor, in
\* lower case, 'nan' (a None cell, whose str is 'None', is counted)
CountedCells(row) ==
    {c \in DOMAIN row :
        LET t == StripText(StrOf(row[c]))
        IN  t # <<>> /\ LowerText(t) # <<"n","a","n">>}

\* a row the scan accepts: at least 3 counted cells, a keyword in one of them
IsAccepted(row) ==
    /\ Cardinality(CountedCells(row)) >= 3
    /\ \E c \in CountedCells(row), key \in HeaderKeys :
           Contains(LowerText(StripText(StrOf(row[c]))), key)

\* the result is the input with its i-th row promoted to the column labels:
\* the labels are the str of that row's cells, the rows are the rows below
\* it, less the columns and rows without a value, each stamped with its row
\* label + 1
PromotesRow(i) ==
    LET below  == {r \in DOMAIN df.rows : r > i}
        colsIn == {c \in DOMAIN df.columns :
                      \E r \in below : ~IsNA(df.rows[r][c])}
        rowsIn == {r \in below :
                      \E c \in DOMAIN df.columns : ~IsNA(df.rows[r][c])}
        labels == [c \in DOMAIN df.columns |-> TextCell(StrOf(df.rows[i][c]))]
        kept   == PickFrom([r \in DOMAIN df.rows |-> r], 1, rowsIn)
    IN  /\ prepared.raised = ""
        /\ prepared.table.columns = PickFrom(labels, 1, colsIn) \o <<SourceRowLabel>>
        /\ prepared.table.index = [k \in DOMAIN kept |-> df.index[kept[k]]]
        /\ prepared.table.rows =
               [k \in DOMAIN kept |->
                   PickFrom(df.rows[kept[k]], 1, colsIn)
                       \o <<IntCell(df.index[kept[k]] + 1)>>]

\* C10 as stated, on the tables whose row labels are 0..n-1: whenever a row R
\* has at least 3 non-empty cells bearing header keywords, exactly R is
\* promoted to the column labels and only the rows below R are kept.
C10_ThatRowIsPromoted ==
    (Prepared /\ HasPlaceholder(df)) =>
        \A i \in DOMAIN df.rows :
            (df.index[1] = 0 /\ Cardinality(KeywordCells(df.rows[i])) >= 3)
                => PromotesRow(i)

\* C10 amended: for a table with placeholder labels the scan selects the
\* first row, top to bottom, that has at least 3 counted cells and a header
\* keyword in one of them, so a row R of 3 keyword cells is selected only
\* when no row above it is accepted.  The row promoted is the one at the
\* 0-based position equal to the selected row's label: the selected row
\* itself when the row labels are 0..n-1.  Only the rows below the promoted
\* row are kept; a position past the last row raises IndexError.
C10_FirstAcceptedRowIsPromoted ==
    (Prepared /\ HasPlaceholder(df)) =>
        LET accepted == {i \in DOMAIN df.rows : IsAccepted(df.rows[i])}
        IN  accepted # {} =>
                LET first    == CHOOSE i \in accepted : \A j \in accepted : i <= j
                    position == df.index[first] + 1
                IN  /\ df.index[1] = 0 => position = first
                    /\ IF position \in DOMAIN df.rows
                       THEN PromotesRow(position)
                       ELSE prepared.raised = "IndexError"

\* row labels 0..n-1: a row with a keyword but fewer than 3 counted cells
\* lies above the header row of 3 keyword cells, which is promoted, and a row
\* below it is kept
C10_Witness ==
    /\ Prepared
    /\ HasPlaceholder(df)
    /\ prepared.raised = ""
    /\ \E i, j \in DOMAIN df.rows :
           /\ i < j
           /\ df.index[1] = 0
           /\ KeywordCells(df.rows[i]) # {}
           /\ \A h \in 1..(j - 1) : ~IsAccepted(df.rows[h])
           /\ Cardinality(KeywordCells(df.rows[j])) >= 3
           /\ PromotesRow(j)
           /\ prepared.table.rows # <<>>

----------------------------------------------------------------------------
(* The multi-format loader: _parse_pdf_tables, _load_catalog_from_file.    *)
(* An uploaded file is a record [extension, sheets, openable, images]; a   *)
(* sheet (a worksheet, or a table of a PDF page) is a record [title,       *)
(* readable, grid], the grid being the rows of cells the reader yields.    *)
(* _load_catalog_from_url differs only in how the bytes are fetched.       *)

\* number of columns of a grid
GridWidth(grid) == IF grid = <<>> THEN 0 ELSE Len(grid[1])

\* pd.read_excel(xl, sheet_name=sheet_name, header=None) and
\* pd.DataFrame(table): column labels 0..n-1, row labels 0..m-1
RawFrame(grid) ==
    [columns |-> [c \in 1..GridWidth(grid) |-> IntCell(c - 1)],
     index   |-> [r \in DOMAIN grid |-> r - 1],
     rows    |-> grid]

\* the loader's result: the dict returned, or the exception raised
Loaded(data) == [raised |-> "", data |-> <<data>>]

LoadFailed(exception) == [raised |-> exception, data |-> <<>>]

\* '_source_row' not in prepared.columns
LacksSourceRow(table) ==
    \A c \in DOMAIN table.columns : table.columns[c] # SourceRowLabel

\* the body of the loop over page.extract_tables() for one table
ParsePdfTable(grid) ==
    LET raw      == RawFrame(grid)
        headed   == IF Len(grid) > 1
                    THEN [columns |-> grid[1],
                          index   |-> Tail(raw.index),
                          rows    |-> Tail(grid)]
                    ELSE raw
        result   == _prepare_dataframe(DropEmptyColumns(headed))
    IN  IF result.raised # "" THEN result
        ELSE IF LacksSourceRow(result.table)
        THEN Returned(StampSourceRow(result.table))
        ELSE result

\* _parse_pdf_tables: the tables of the pages in order; an empty table is
\* passed over; an exception of a page or of a table leaves the function
_parse_pdf_tables(sheets) ==
    LET tabular == SelectSeq(sheets, LAMBDA sh : ~sh.readable \/ sh.grid # <<>>)
    IN  IF \E i \in DOMAIN tabular : ~tabular[i].readable
        THEN LoadFailed("Exception")
        ELSE IF \E i \in DOMAIN tabular : ParsePdfTable(tabular[i].grid).raised # ""
        THEN LoadFailed("IndexError")
        ELSE Loaded([i \in DOMAIN tabular |-> ParsePdfTable(tabular[i].grid).table])

\* the xlsx / xls branch: every sheet read raw and handed to
\* _prepare_dataframe; an exception of one sheet leaves the function
LoadExcel(file) ==
    IF \E i \in DOMAIN file.sheets : ~file.sheets[i].readable
    THEN LoadFailed("Exception")
    ELSE IF \E i \in DOMAIN file.sheets :
                _prepare_dataframe(RawFrame(file.sheets[i].grid)).raised # ""
    THEN LoadFailed("IndexError")
    ELSE Loaded([i \in DOMAIN file.sheets |->
                    _prepare_dataframe(RawFrame(file.sheets[i].grid)).table])

\* the texts pd.read_csv reads as a missing value (those of its default
\* list that are made of the characters of the files modelled)
NaTexts ==
    { <<>>, <<"N","/","A">>, <<"N","A">>, <<"N","a","N">>, <<"n","a","n">>,
      <<"N","o","n","e">>, <<"N","U","L","L">>, <<"n","u","l","l">>, <<"n","/","a">> }

\* a field the parser reads as an integer
IsIntegerText(t) ==
    LET body == IF t # <<>> /\ t[1] \in {"-", "+"} THEN Tail(t) ELSE t
    IN  body # <<>> /\ \A i \in DOMAIN body : IsDigit(body[i])

\* a field the parser reads as a number: digits with at most one decimal
\* point, after an optional sign
IsNumberText(t) ==
    LET body == IF t # <<>> /\ t[1] \in {"-", "+"} THEN Tail(t) ELSE t
    IN  /\ \A i \in DOMAIN body : IsDigit(body[i]) \/ body[i] = "."
        /\ FloatAccepts(body)

RECURSIVE PadDigits(_, _)
\* the digits of a fraction, zero-padded on the left to n places
PadDigits(t, n) == IF Len(t) >= n THEN t ELSE PadDigits(<<"0">> \o t, n)

RECURSIVE DropZeros(_)
\* a fraction without its trailing zeros, one digit at least
DropZeros(t) ==
    IF Len(t) > 1 /\ t[Len(t)] = "0" THEN DropZeros(SubSeq(t, 1, Len(t) - 1)) ELSE t

RECURSIVE PlacesOf(_)
\* the number of decimal places of a denominator 10^n
PlacesOf(den) == IF den = 1 THEN 0 ELSE 1 + PlacesOf(den \div 10)

\* repr() of the float <<numerator, denominator>>, the denominator a power
\* of ten (fixed notation, as for magnitudes between 1e-4 and 1e16)
ReprOfFloat(x) ==
    LET neg   == x[1] < 0
        mant  == IF neg THEN 0 - x[1] ELSE x[1]
        whole == DigitsOfNat(mant \div x[2])
        frac  == IF x[2] = 1 THEN <<"0">>
                 ELSE DropZeros(PadDigits(DigitsOfNat(mant % x[2]), PlacesOf(x[2])))
    IN  (IF neg THEN <<"-">> ELSE <<>>) \o whole \o <<".">> \o frac

\* float(t) of a field read as a number
NumberOf(t) ==
    LET u == IF t[1] = "+" THEN Tail(t) ELSE t
    IN  FloatOf(u)

\* the cells of one column as pd.read_csv types them: int64 when every
\* field is an integer, float64 when every field is a number or missing,
\* else object with NaN for the missing fields
ReadCsvColumn(fields) ==
    LET present == {i \in DOMAIN fields : fields[i] \notin NaTexts}
    IN  IF present = DOMAIN fields /\ \A i \in present : IsIntegerText(fields[i])
        THEN [i \in DOMAIN fields |-> IntCell(NumberOf(fields[i])[1])]
        ELSE IF \A i \in present : IsNumberText(fields[i])
        THEN [i \in DOMAIN fields |->
                 IF i \in present
                 THEN FloatCell(ReprOfFloat(NumberOf(fields[i])))
                 ELSE NanCell]
        ELSE [i \in DOMAIN fields |->
                 IF i \in present THEN TextCell(fields[i]) ELSE NanCell]

\* the label of a header field: an empty one is named 'Unnamed: <position>'
\* (the header fields of the files modelled are distinct)
CsvLabel(t, c) ==
    IF t = <<>>
    THEN TextCell(<<"U","n","n","a","m","e","d",":"," ">> \o DigitsOfNat(c - 1))
    ELSE TextCell(t)

\* pd.read_csv(BytesIO(file_bytes)) of the lines of fields `grid` (each
\* field a text): the first line is the header, the others the rows 0..m-1
ReadCsv(grid) ==
    LET body == Tail(grid)
        typed == [c \in DOMAIN grid[1] |->
                     ReadCsvColumn([r \in DOMAIN body |-> body[r][c].s])]
    IN  [columns |-> [c \in DOMAIN grid[1] |-> CsvLabel(grid[1][c].s, c)],
         index   |-> [r \in DOMAIN body |-> r - 1],
         rows    |-> [r \in DOMAIN body |-> [c \in DOMAIN grid[1] |-> typed[c][r]]]]

\* sheet_names of the workbook
SheetNames(file) == [i \in DOMAIN file.sheets |-> file.sheets[i].title]

_load_catalog_from_file(file) ==
    CASE file.extension = "csv" ->
            IF ~file.sheets[1].readable \/ file.sheets[1].grid = <<>>
            THEN LoadFailed("EmptyDataError")
            ELSE Loaded([dataframes  |-> <<StampSourceRow(ReadCsv(file.sheets[1].grid))>>,
                         sheet_names |-> <<>>,
                         source_type |-> "csv",
                         file_bytes  |-> FALSE])
      [] file.extension \in {"xlsx", "xls"} ->
            LET r == LoadExcel(file)
            IN  IF r.raised # "" THEN r
                ELSE Loaded([dataframes  |-> r.data[1],
                             sheet_names |-> SheetNames(file),
                             source_type |-> "excel",
                             file_bytes  |-> TRUE])
      [] file.extension = "pdf" ->
            LET r == _parse_pdf_tables(file.sheets)
            IN  IF r.raised # "" THEN r
                ELSE Loaded([dataframes  |-> r.data[1],
                             sheet_names |-> <<>>,
                             source_type |-> "pdf",
                             file_bytes  |-> TRUE])
      [] OTHER ->
            Loaded([dataframes  |-> <<>>,
                    sheet_names |-> <<>>,
                    source_type |-> file.extension,
                    file_bytes  |-> FALSE])

----------------------------------------------------------------------------
(* The embedded image extractor: _extract_excel_images, _extract_pdf_images *)
(* An image of the file is a record [sheet, row, payload]: the position of  *)
(* its sheet, its 1-based anchor row (0 when the anchor has no _from) and   *)
(* whether bytes can be had from it.  An image path is the triple           *)
(* <<sheet title, row, idx + 1>> its file name is formatted from.           *)

\* the extractor's result: the map or list returned, or the exception raised
Extracted(map, count) == [raised |-> "", image_map |-> map, image_count |-> count]

ExtractFailed(exception) ==
    [raised |-> exception, image_map |-> EmptyImageMap, image_count |-> 0]

\* idx + 1 of enumerate(ws._images) for the k-th image of the file
ImageNumber(images, k) ==
    Cardinality({j \in 1..k : images[j].sheet = images[k].sheet})

\* the images that reach  mapping[(ws.title, row)] = image_path
IsWritten(image) == image.row # 0 /\ image.payload

_extract_excel_images(file) ==
    IF ~file.openable THEN ExtractFailed("BadZipFile")
    ELSE LET written == {k \in DOMAIN file.images :
                            /\ file.images[k].sheet \in DOMAIN file.sheets
                            /\ IsWritten(file.images[k])}
             KeyOf(k) == <<file.sheets[file.images[k].sheet].title, file.images[k].row>>
             keys     == {KeyOf(k) : k \in written}
             LastOf(key) == CHOOSE k \in written :
                                /\ KeyOf(k) = key
                                /\ \A j \in written : KeyOf(j) = key => j <= k
         IN  Extracted([key \in keys |->
                           <<key[1], key[2], ImageNumber(file.images, LastOf(key))>>],
                       Cardinality(keys))

\* fitz missing: no image; fitz.open and handle.write(None) raise
_extract_pdf_images(file) ==
    IF ~file.fitz THEN Extracted(EmptyImageMap, 0)
    ELSE IF ~file.openable THEN ExtractFailed("FileDataError")
    ELSE IF \E k \in DOMAIN file.images : ~file.images[k].payload
    THEN ExtractFailed("TypeError")
    ELSE Extracted(EmptyImageMap, Len(file.images))

\* lines 542-547 and 629-634: the extraction a save starts with
ExtractFor(file, data, checked) ==
    IF checked /\ data.file_bytes
    THEN CASE data.source_type = "excel" -> _extract_excel_images(file)
           [] data.source_type = "pdf"   -> _extract_pdf_images(file)
           [] OTHER                      -> Extracted(EmptyImageMap, 0)
    ELSE Extracted(EmptyImageMap, 0)

----------------------------------------------------------------------------
(* show_supplier_portal: the catalog upload, "Bulk Save Catalogs" and      *)
(* "Save Catalog".  A save_supplier_catalog call is recorded as the record *)
(* [sheet, items, image_count]: the sheet label its catalog name ends in   *)
(* ('' on the single-catalog path) and the items handed over.              *)

\* what the page shows once the button's code has run
SavedMessage == "Catalog saved"

BulkMessage == "Saved catalogs. Skipped sheets."

NoItemsMessage == "No catalog items were created. Please confirm the Item Name column."

LoadFailedMessage == "Failed to read file"

\* an exception that leaves show_supplier_portal (the page shows its trace)
Uncaught(exception) == exception

\* the result of a button: counters, calls made, and what the page shows
PortalResult(n_saved, n_skipped, made, shown) ==
    [saved |-> n_saved, skipped |-> n_skipped, save_calls |-> made, message |-> shown]

\* lines 516-521: catalog_data stays None when the loader raises
LoadOutcome(file) ==
    LET r == _load_catalog_from_file(file)
    IN  IF r.raised # "" THEN [catalog_data |-> <<>>, message |-> LoadFailedMessage]
        ELSE [catalog_data |-> r.data, message |-> ""]

\* is_multi_sheet
IsMultiSheet(data) == data.source_type = "excel" /\ Len(data.sheet_names) > 1

RECURSIVE BulkFrom(_, _, _, _, _)
\* the loop of "Bulk Save Catalogs" from sheet i on
BulkFrom(data, dcurrency, imap, i, acc) ==
    IF i > Len(data.sheet_names) THEN acc
    ELSE LET sheet_df == data.dataframes[i]
             guessed  == _guess_column_map(sheet_df)
             built    == _build_catalog_items(sheet_df, guessed, dcurrency, imap,
                                              data.sheet_names[i])
         IN  IF ~Truthy(guessed["item"]) \/ built = <<>>
             THEN BulkFrom(data, dcurrency, imap, i + 1,
                           [acc EXCEPT !.skipped = @ + 1])
             ELSE BulkFrom(data, dcurrency, imap, i + 1,
                           [acc EXCEPT
                               !.saved = @ + 1,
                               !.save_calls = Append(@,
                                   [sheet |-> data.sheet_names[i],
                                    items |-> built,
                                    image_count |-> Cardinality(DOMAIN imap)])])

\* lines 537-593 with the bulk checkbox ticked and the button pressed
BulkSaveOutcome(file, data, checked, dcurrency) ==
    LET images == ExtractFor(file, data, checked)
    IN  IF images.raised # "" THEN PortalResult(0, 0, <<>>, Uncaught(images.raised))
        ELSE BulkFrom(data, dcurrency, images.image_map, 1,
                      PortalResult(0, 0, <<>>, BulkMessage))

\* the table shown on the single-catalog path
ShownTable(data, sheet) ==
    IF Len(data.sheet_names) > 1 THEN data.dataframes[sheet] ELSE data.dataframes[1]

\* the selection a selectbox starts with: the guessed label when it is one
\* of the options, else '(none)', which the column map turns into ''
DefaultChoice(table, guessed, role) ==
    IF \E c \in DOMAIN table.columns : table.columns[c] = guessed[role]
    THEN guessed[role]
    ELSE EmptyText

\* column_map of line 636: the item selection as made, the others as guessed
SelectedColumnMap(table, choice) ==
    LET guessed == _guess_column_map(table)
    IN  [r \in RoleSet |->
            IF r = "item" THEN choice ELSE DefaultChoice(table, guessed, r)]

\* lines 625-661 with the button pressed; sheet_label is bound only by the
\* selectbox of a workbook of more than one sheet
SaveCatalogOutcome(file, data, checked, dcurrency, sheet, choice) ==
    LET table  == ShownTable(data, sheet)
        images == ExtractFor(file, data, checked)
        bound  == Len(data.sheet_names) > 1
        label  == IF data.sheet_names # <<>> THEN data.sheet_names[sheet] ELSE <<>>
        built  == _build_catalog_items(table, SelectedColumnMap(table, choice),
                                       dcurrency, images.image_map, label)
    IN  IF images.raised # "" THEN PortalResult(0, 0, <<>>, Uncaught(images.raised))
        ELSE IF data.sheet_names # <<>> /\ ~bound
        THEN PortalResult(0, 0, <<>>, Uncaught("NameError"))
        ELSE IF built = <<>> THEN PortalResult(0, 0, <<>>, NoItemsMessage)
        ELSE PortalResult(0, 0,
                 <<[sheet |-> <<>>, items |-> built,
                    image_count |-> images.image_count]>>,
                 SavedMessage)

----------------------------------------------------------------------------
(* Inputs of the portal: CSV files, workbooks and PDF files of a few       *)
(* sheets of three columns                                                 *)

HeaderCells == <<TextCell(<<"I","t","e","m">>), TextCell(<<"U","n","i","t">>), TextCell(<<"P","r","i","c","e">>)>>

QtyHeaderCells == <<TextCell(<<"Q","t","y">>), TextCell(<<"U","n","i","t">>), TextCell(<<"P","r","i","c","e">>)>>

BedCells == <<TextCell(<<"B","e","d">>), TextCell(<<"p","c">>), IntCell(450)>>

UnnamedCells == <<NanCell, TextCell(<<"p","c">>), IntCell(450)>>

TitleCells == <<TextCell(<<"P","r","i","c","e"," ","l","i","s","t">>), NanCell, NanCell>>

\* the sheets of a workbook as the reader yields them: a header row and a
\* named row; the same below a title row; a header without an item label; a
\* header and a row without a name; an empty sheet; a row without a header
SheetGrids ==
    { <<HeaderCells, BedCells>>,
      <<TitleCells, HeaderCells, BedCells>>,
      <<QtyHeaderCells, BedCells>>,
      <<HeaderCells, UnnamedCells>>,
      <<>>,
      <<BedCells>> }

\* a cell as pdfplumber yields it: text, None for an empty cell
PdfCell(v) == IF IsNA(v) THEN NoneCell ELSE TextCell(StrOf(v))

PdfGrid(grid) == [r \in DOMAIN grid |-> [c \in DOMAIN grid[r] |-> PdfCell(grid[r][c])]]

\* the CSV file of scenario A
ScenarioACsv ==
    << <<TextCell(<<"P","r","o","d","u","c","t"," ","C","o","d","e">>),
         TextCell(<<"I","t","e","m"," ","D","e","s","c","r","i","p","t","i","o","n">>),
         TextCell(<<"R","a","t","e"," ","(","U","S","D",")">>)>>,
       <<TextCell(<<"A","1">>),
         TextCell(<<"Q","u","e","e","n"," ","B","e","d"," ","F","r","a","m","e">>),
         TextCell(<<"4","5","0",".","0","0">>)>> >>

\* the lines of fields of the CSV files: the file of scenario A, a file
\* whose item-name field is missing in one line, a file without an item
\* label, and a header line alone
CsvGrids ==
    { ScenarioACsv,
      << <<TextCell(<<"I","t","e","m">>), TextCell(<<"U","n","i","t">>), TextCell(<<"P","r","i","c","e">>)>>,
          <<TextCell(<<"B","e","d">>), TextCell(<<"p","c">>), TextCell(<<"4","5","0">>)>>,
          <<EmptyText, TextCell(<<"p","c">>), TextCell(<<"N","/","A">>)>> >>,
      << <<TextCell(<<"Q","t","y">>), TextCell(<<"U","n","i","t">>), TextCell(<<"P","r","i","c","e">>)>>,
          <<TextCell(<<"2">>), TextCell(<<"p","c">>), TextCell(<<"0",".","5","0">>)>> >>,
      << <<TextCell(<<"I","t","e","m">>), TextCell(<<"U","n","i","t">>), TextCell(<<"P","r","i","c","e">>)>> >> }

\* what a reader finds in a sheet: its grid, or that it cannot be read
Readable(grid) == [readable |-> TRUE, grid |-> grid]

Unreadable == [readable |-> FALSE, grid |-> <<>>]

\* the sheet at position i of a file
SheetAt(i, content) ==
    [title    |-> <<"S">> \o DigitsOfNat(i),
     readable |-> content.readable,
     grid     |-> content.grid]

\* the embedded images: none; one anchored at row 2 of the first sheet; one
\* without an anchor row; one without bytes
ImageLists ==
    { <<>>,
      <<[sheet |-> 1, row |-> 2, payload |-> TRUE]>>,
      <<[sheet |-> 1, row |-> 0, payload |-> TRUE]>>,
      <<[sheet |-> 1, row |-> 2, payload |-> FALSE]>> }

SheetLists(contents) ==
    {[i \in DOMAIN cs |-> SheetAt(i, cs[i])] :
        cs \in UNION {[1..m -> {Readable(g) : g \in contents} \cup {Unreadable}] :
                          m \in 1..MaxSheets}}

\* an upload and the state of the "Extract embedded images" checkbox; what
\* the image libraries would meet matters only with the checkbox ticked
Uploads ==
    {[file |-> [extension |-> "csv", sheets |-> <<SheetAt(1, Readable(g))>>,
                openable |-> TRUE, fitz |-> TRUE, images |-> <<>>],
      checked |-> FALSE] : g \in CsvGrids \cup {<<>>}}
    \cup
    {[file |-> [extension |-> e, sheets |-> sh,
                openable |-> e = "xlsx", fitz |-> TRUE, images |-> im],
      checked |-> ck] :
        e \in {"xlsx", "xls"}, sh \in SheetLists(SheetGrids),
        im \in ImageLists, ck \in BOOLEAN}
    \cup
    {[file |-> [extension |-> "pdf", sheets |-> sh,
                openable |-> op, fitz |-> fz, images |-> im],
      checked |-> ck] :
        sh \in SheetLists({PdfGrid(g) : g \in SheetGrids}),
        op \in BOOLEAN, fz \in BOOLEAN, im \in ImageLists, ck \in BOOLEAN}
    \cup
    {[file |-> [extension |-> "txt", sheets |-> <<SheetAt(1, Readable(<<>>))>>,
                openable |-> TRUE, fitz |-> TRUE, images |-> <<>>],
      checked |-> FALSE]}

\* the uploads told apart by what a run can observe
IsRelevant(u) ==
    \/ u.checked
    \/ u.file.images = <<>> /\ u.file.fitz /\ (u.file.openable \/ u.file.extension = "xls")

----------------------------------------------------------------------------
(* Specification of the supplier portal *)

InitPortal ==
    /\ pc = "start"
    /\ \E u \in Uploads :
           /\ IsRelevant(u)
           /\ uploaded_file = u.file
           /\ extract_images = u.checked
    /\ default_currency = TextCell(<<"U","S","D">>)
    /\ item_choice = <<>>
    /\ catalog_data = <<>>
    /\ save_calls = <<>>
    /\ saved = 0
    /\ skipped = 0
    /\ message = ""
    /\ df = EmptyTable
    /\ column_map = <<>>
    /\ image_map = EmptyImageMap
    /\ sheet_name = <<>>
    /\ items = <<>>
    /\ IdleMatch
    /\ IdlePrice
    /\ IdleGuess
    /\ IdlePrepare
    /\ IdleCompare
    /\ IdleRfp
    /\ IdleNormalize
    /\ IdleStore

otherVars ==
    <<matchVars, priceVars, buildVars, guessVars, prepared, compareVars,
      rfpVars, normVars, storeVars>>

\* the page run that follows the upload
LoadCatalog ==
    /\ pc = "start"
    /\ pc' = "loaded"
    /\ catalog_data' = LoadOutcome(uploaded_file).catalog_data
    /\ message' = LoadOutcome(uploaded_file).message
    /\ UNCHANGED <<uploaded_file, extract_images, item_choice, save_calls,
                   saved, skipped, otherVars>>

\* "if catalog_data and catalog_data.get('dataframes')"
HasTables == catalog_data # <<>> /\ catalog_data[1].dataframes # <<>>

\* the page run with "Bulk import all sheets" ticked and "Bulk Save
\* Catalogs" pressed
BulkSaveCatalogs ==
    /\ pc = "loaded"
    /\ HasTables
    /\ IsMultiSheet(catalog_data[1])
    /\ pc' = "Bulk Save Catalogs"
    /\ LET r == BulkSaveOutcome(uploaded_file, catalog_data[1], extract_images,
                                default_currency)
       IN  /\ save_calls' = r.save_calls
           /\ saved' = r.saved
           /\ skipped' = r.skipped
           /\ message' = r.message
    /\ UNCHANGED <<uploaded_file, extract_images, item_choice, catalog_data,
                   otherVars>>

\* the options of the "Item Name Column" selectbox: '(none)', held as '',
\* and the labels of the table shown
ItemOptions(table) == {EmptyText} \cup Range(table.columns)

\* the page run with a sheet and an item column selected and "Save Catalog"
\* pressed
SaveCatalog ==
    /\ pc = "loaded"
    /\ HasTables
    /\ pc' = "Save Catalog"
    /\ \E sheet \in DOMAIN catalog_data[1].dataframes :
           /\ Len(catalog_data[1].sheet_names) <= 1 => sheet = 1
           /\ \E choice \in ItemOptions(ShownTable(catalog_data[1], sheet)) :
                  LET r == SaveCatalogOutcome(uploaded_file, catalog_data[1],
                               extract_images, default_currency, sheet, choice)
                  IN  /\ item_choice' = <<[sheet |-> sheet, item |-> choice]>>
                      /\ save_calls' = r.save_calls
                      /\ message' = r.message
    /\ UNCHANGED <<uploaded_file, extract_images, catalog_data, saved, skipped,
                   otherVars>>

NextPortal == LoadCatalog \/ BulkSaveCatalogs \/ SaveCatalog

SpecPortal == InitPortal /\ [][NextPortal]_vars

(* Claims about the loader and the portal *)

CatalogLoaded == pc = "loaded" /\ catalog_data # <<>>

IsWorkbook(file) == file.extension \in {"xlsx", "xls"}

\* `result` is `table` with its i-th row promoted to the column labels: the
\* labels are the str of that row's cells, the rows are the rows below it,
\* less the columns and rows without a value, each stamped with its row
\* label + 1
HasRowPromoted(table, i, result) ==
    LET below  == {r \in DOMAIN table.rows : r > i}
        colsIn == {c \in DOMAIN table.columns :
                      \E r \in below : ~IsNA(table.rows[r][c])}
        rowsIn == {r \in below :
                      \E c \in DOMAIN table.columns : ~IsNA(table.rows[r][c])}
        labels == [c \in DOMAIN table.columns |-> TextCell(StrOf(table.rows[i][c]))]
        kept   == PickFrom([r \in DOMAIN table.rows |-> r], 1, rowsIn)
    IN  /\ result.columns = PickFrom(labels, 1, colsIn) \o <<SourceRowLabel>>
        /\ result.index = [k \in DOMAIN kept |-> table.index[kept[k]]]
        /\ result.rows =
               [k \in DOMAIN kept |->
                   PickFrom(table.rows[kept[k]], 1, colsIn)
                       \o <<IntCell(table.index[kept[k]] + 1)>>]

\* the rows of a grid that are header rows: at least 3 non-empty cells, a
\* header keyword present
HeaderRowsOf(grid) == {r \in DOMAIN grid : IsAccepted(grid[r])}

\* C11: for every sheet of a loaded workbook whose grid contains a header
\* row, the table returned for the sheet has that row's cell values as its
\* column labels, contains only the rows below it, and carries a
\* _source_row for every row.
C11_SheetHeaderPromoted ==
    (CatalogLoaded /\ IsWorkbook(uploaded_file)) =>
        \A i \in DOMAIN uploaded_file.sheets :
            LET grid == uploaded_file.sheets[i].grid
            IN  HeaderRowsOf(grid) # {} =>
                    HasRowPromoted(RawFrame(grid),
                        CHOOSE h \in HeaderRowsOf(grid) :
                            \A j \in HeaderRowsOf(grid) : h <= j,
                        catalog_data[1].dataframes[i])

BulkSaved == pc = "Bulk Save Catalogs"

\* a sheet with a detectable item column and a named row: its header row has
\* a label with an item keyword, and a row below it has a name under it
HasNamedItemRow(grid) ==
    /\ HeaderRowsOf(grid) # {}
    /\ LET h == CHOOSE r \in HeaderRowsOf(grid) : \A j \in HeaderRowsOf(grid) : r <= j
       IN  \E c \in DOMAIN grid[h] :
               /\ HasKeyword(_normalize_text(grid[h][c]), "item")
               /\ \A d \in 1..(c - 1) : ~HasKeyword(_normalize_text(grid[h][d]), "item")
               /\ \E r \in DOMAIN grid : r > h /\ ~IsEmptyNameCell(grid[r][c])

\* the save_supplier_catalog calls made for the sheet of a title
CallsFor(title) == {k \in DOMAIN save_calls : save_calls[k].sheet = title}

\* C12: a bulk import saves exactly one catalog for every sheet with a
\* detectable item column and a named row, skips every other sheet without
\* aborting, and ends with saved + skipped = number of sheets (stated for
\* the imports made with "Extract embedded images" unticked).
C12_BulkSavesItemSheets ==
    (BulkSaved /\ ~extract_images) =>
        /\ message = BulkMessage
        /\ saved + skipped = Len(uploaded_file.sheets)
        /\ saved = Len(save_calls)
        /\ \A i \in DOMAIN uploaded_file.sheets :
               Cardinality(CallsFor(uploaded_file.sheets[i].title)) =
                   IF HasNamedItemRow(uploaded_file.sheets[i].grid) THEN 1 ELSE 0

CatalogSaved == pc = "Save Catalog"

\* the sheets of the loaded workbook for which no item column is guessed
UnguessedSheets ==
    {i \in DOMAIN catalog_data[1].dataframes :
        ~Truthy(_guess_column_map(catalog_data[1].dataframes[i])["item"])}

\* C13: with the item role unresolved no catalog is persisted: "Save
\* Catalog" shows the explicit error and makes no save_supplier_catalog
\* call, and the bulk import counts the sheet as skipped and makes no call
\* for it (stated for "Extract embedded images" unticked).
C13_UnresolvedItemNotSaved ==
    /\ (CatalogSaved /\ ~extract_images /\ item_choice[1].item = EmptyText) =>
           /\ message = NoItemsMessage
           /\ save_calls = <<>>
    /\ (BulkSaved /\ ~extract_images) =>
           /\ skipped >= Cardinality(UnguessedSheets)
           /\ \A i \in UnguessedSheets :
                  CallsFor(catalog_data[1].sheet_names[i]) = {}

\* the item names of the catalogs handed to save_supplier_catalog
SavedNames(made) ==
    [k \in DOMAIN made |->
        [sheet |-> made[k].sheet,
         names |-> [j \in DOMAIN made[k].items |-> made[k].items[j].item_name]]]

\* the image paths that may be linked: those of the images with an anchor
\* row and bytes
LinkablePaths ==
    {<<uploaded_file.sheets[uploaded_file.images[k].sheet].title,
       uploaded_file.images[k].row,
       ImageNumber(uploaded_file.images, k)>> :
        k \in {j \in DOMAIN uploaded_file.images : IsWritten(uploaded_file.images[j])}}

\* C14: image extraction never blocks a save: with "Extract embedded
\* images" ticked the same catalogs, with the same items, are persisted as
\* with it unticked, and an item's image_path is empty unless an image with
\* an anchor row and bytes exists.
C14_ExtractionNeverBlocksSave ==
    /\ CatalogSaved =>
           LET plain == SaveCatalogOutcome(uploaded_file, catalog_data[1], FALSE,
                            default_currency, item_choice[1].sheet, item_choice[1].item)
           IN  /\ SavedNames(save_calls) = SavedNames(plain.save_calls)
               /\ \A k \in DOMAIN save_calls : \A j \in DOMAIN save_calls[k].items :
                      save_calls[k].items[j].image_path \in {<<>>} \cup LinkablePaths
    /\ BulkSaved =>
           LET plain == BulkSaveOutcome(uploaded_file, catalog_data[1], FALSE,
                                        default_currency)
           IN  SavedNames(save_calls) = SavedNames(plain.save_calls)

\* C15: one unreadable or non-tabular sheet or PDF table does not make the
\* loader fail: the load returns a result, and for a workbook the table of
\* such a sheet is empty and every other sheet's table is what the sheet
\* alone gives.
C15_BadSectionDoesNotAbortLoad ==
    (pc = "loaded" /\ uploaded_file.extension \in {"xlsx", "xls", "pdf"}) =>
        /\ catalog_data # <<>>
        /\ IsWorkbook(uploaded_file) =>
               \A i \in DOMAIN uploaded_file.sheets :
                   catalog_data[1].dataframes[i] =
                       IF uploaded_file.sheets[i].readable
                       THEN _prepare_dataframe(RawFrame(uploaded_file.sheets[i].grid)).table
                       ELSE EmptyTable

\* the uploaded file is the CSV of scenario A
IsScenarioA ==
    /\ uploaded_file.extension = "csv"
    /\ uploaded_file.sheets[1].grid = ScenarioACsv

\* "Save Catalog" was pressed with the item selection left as guessed
SavedAsGuessed ==
    /\ CatalogSaved
    /\ item_choice[1].item =
           _guess_column_map(catalog_data[1].dataframes[1])["item"]

----------------------------------------------------------------------------
(* Scenario C of the matcher *)

\* the letters and digits of a text, in order, letters in lower case
LettersAndDigits(t) ==
    LET kept == SelectSeq(t, LAMBDA c : LowerChar(c) \in Range(LowerLetters) \cup Range(Digits))
    IN  [i \in DOMAIN kept |-> LowerChar(kept[i])]

\* a and b differ in case and punctuation only
DiffersInCaseAndPunctuationOnly(a, b) == LettersAndDigits(a) = LettersAndDigits(b)

\* C17: "King Bed - Premium" matched against ["King Size Bed Premium",
\* "Queen Bed Standard"] returns the first item with a score >= 0.55; the
\* second item alone scores below 0.55 and is rejected; and a name scored
\* against a text that differs from it only in case and punctuation scores
\* exactly 1.0.
C17_ScenarioCAndExactCopy ==
    /\ (Matched /\ proc_name = ScenarioCName
            /\ catalog_items = CatalogOf(<<KingSizeBedPremium, QueenBedStandard>>)) =>
           /\ match_result # <<>>
           /\ match_result[1].item = catalog_items[1]
           /\ ScoreGE(match_result[1].match_score, MinScore)
    /\ (Matched /\ proc_name = ScenarioCName
            /\ catalog_items = CatalogOf(<<QueenBedStandard>>)) =>
           /\ ~ScoreGE(ScoreAt(1), MinScore)
           /\ match_result = <<>>
    /\ \A i \in DOMAIN catalog_items :
           DiffersInCaseAndPunctuationOnly(proc_name, catalog_items[i].item_name) =>
               /\ ScoreAt(i)[1] = ScoreAt(i)[2]
               /\ ScoreAt(i)[2] > 0

\* the scenario name was matched against the second item and a copy of the
\* name in another case and punctuation, and the copy was returned
C17_Witness ==
    /\ Matched
    /\ proc_name = ScenarioCName
    /\ Len(catalog_items) = 2
    /\ catalog_items[2].item_name = KingBedPremiumCopy
    /\ catalog_items[2].item_name # proc_name
    /\ match_result # <<>>
    /\ match_result[1].item = catalog_items[2]

----------------------------------------------------------------------------
(* show_supplier_comparison: the comparison rows *)

\* supplier_choices: label -> supplier_id; of two suppliers with one label
\* the dict keeps the later one
SupplierChoices(suppliers) ==
    [l \in {suppliers[i].label : i \in DOMAIN suppliers} |->
        suppliers[CHOOSE i \in DOMAIN suppliers :
                     /\ suppliers[i].label = l
                     /\ \A j \in DOMAIN suppliers :
                            suppliers[j].label = l => j <= i].supplier_id]

\* selected_supplier_ids
SelectedSupplierIds(choices, selected) == {choices[l] : l \in selected}

\* catalog_by_supplier.get(supplier_id, [])
CatalogBySupplier(catalog, supplier_id) ==
    SelectSeq(catalog, LAMBDA it : it.supplier_id = supplier_id)

\* a key of item_data: <<>> when absent, <<text>> when present
IsSet(field) == field # <<>> /\ field[1] # <<>>

\* item_data.get('Item') or item_data.get('item') or 'Item'
ProcNameOf(item_data) ==
    IF IsSet(item_data.Item) THEN item_data.Item[1]
    ELSE IF IsSet(item_data.item) THEN item_data.item[1]
    ELSE <<"I","t","e","m">>

\* item_data.get('Total Qty', item_data.get('Total_Qty', 0))
QuantityOf(item_data) ==
    IF item_data.Total_Qty_spaced # <<>> THEN item_data.Total_Qty_spaced[1]
    ELSE IF item_data.Total_Qty # <<>> THEN item_data.Total_Qty[1]
    ELSE 0

\* the price cell with 'POR' in place of 'No match'
PriceLabelOf_por(match) ==
    IF match = <<>> THEN [text |-> "POR", number |-> <<>>]
    ELSE IF match[1].item.price_available
         THEN [text |-> "", number |-> match[1].item.price]
         ELSE [text |-> "POR", number |-> <<>>]

\* the "<supplier> Price" cell: the price, 'POR' or 'No match'
PriceLabelOf(match) ==
    IF match = <<>> THEN [text |-> "No match", number |-> <<>>]
    ELSE IF match[1].item.price_available
         THEN [text |-> "", number |-> match[1].item.price]
         ELSE [text |-> "POR", number |-> <<>>]

\* the "<supplier> Match" cell
MatchLabelOf(match) ==
    IF match = <<>> THEN <<>> ELSE match[1].item.item_name

\* the row of one procurement item
ComparisonRow(proj_item, choices, selected, catalog) ==
    LET name == ProcNameOf(proj_item.item_data)
    IN  [Item     |-> name,
         Qty      |-> QuantityOf(proj_item.item_data),
         Selected |-> <<>>,
         cells    |->
            [l \in {k \in DOMAIN choices :
                        choices[k] \in SelectedSupplierIds(choices, selected)} |->
                LET match == _match_catalog_item(
                                 name, CatalogBySupplier(catalog, choices[l]))
                IN  [Price |-> PriceLabelOf(match), Match |-> MatchLabelOf(match)]]]

\* comparison_rows, or <<>> when the page returns before building them
ComparisonRows(proj_items, suppliers, selected, catalog) ==
    [i \in DOMAIN proj_items |->
        ComparisonRow(proj_items[i], SupplierChoices(suppliers), selected, catalog)]

----------------------------------------------------------------------------
(* Inputs of the comparison *)

\* the suppliers stored: two labels, or one label shared by two suppliers
SupplierLists ==
    { << [supplier_id |-> 1, label |-> "Acme (a@acme.example)"],
         [supplier_id |-> 2, label |-> "Bolt (b@bolt.example)"] >>,
      << [supplier_id |-> 1, label |-> "Acme (a@acme.example)"],
         [supplier_id |-> 2, label |-> "Acme (a@acme.example)"] >> }

\* item_data of procurement items: named by 'Item', named by 'item', and
\* with an empty 'Item' and no 'item'
ItemDatas ==
    { [Item |-> <<<<"B","e","d">>>>, item |-> <<>>,
       Total_Qty_spaced |-> <<4>>, Total_Qty |-> <<>>],
      [Item |-> <<>>, item |-> <<<<"d","e","s","k","!">>>>,
       Total_Qty_spaced |-> <<>>, Total_Qty |-> <<2>>],
      [Item |-> <<<<>>>>, item |-> <<>>,
       Total_Qty_spaced |-> <<>>, Total_Qty |-> <<>>] }

\* catalog items as stored: with a price, price on request, and priced 0
StoredItems ==
    { [item_name |-> np[1], source_row |-> 1, supplier_id |-> s,
       price |-> np[2], price_available |-> np[2] # <<>>] :
         np \in { <<<<"B","e","d">>, <<<<450, 1>>>>>>,
                  <<<<"B","e","d">>, <<>>>>,
                  <<<<"D","e","s","k">>, <<<<0, 1>>>>>> },
         s \in {1, 2} }

InitCompare ==
    /\ pc = "start"
    /\ IdleMatch
    /\ IdlePrice
    /\ IdleBuild
    /\ IdleGuess
    /\ IdlePrepare
    /\ IdlePortal
    /\ IdleRfp
    /\ IdleNormalize
    /\ IdleStore
    /\ project_items \in
           UNION {[1..m -> {[item_data |-> d] : d \in ItemDatas}] :
                     m \in 0..MaxProjectItems}
    /\ \E suppliers \in SupplierLists :
           selected_suppliers \in
               {[suppliers |-> suppliers, selected |-> sel] :
                    sel \in SUBSET {suppliers[i].label : i \in DOMAIN suppliers}}
    /\ stored_items \in UNION {[1..m -> StoredItems] : m \in 0..MaxStored}
    /\ comparison_rows = <<>>

\* the page returns before the comparison: no supplier selected, or no
\* catalog item for the selection
ReturnEarly ==
    /\ pc = "start"
    /\ selected_suppliers.selected = {} \/ stored_items = <<>>
    /\ pc' = "returned"
    /\ UNCHANGED <<matchVars, priceVars, buildVars, guessVars, prepared,
                   portalVars, compareVars, rfpVars, normVars, storeVars>>

\* the page builds the comparison rows
BuildComparison ==
    /\ pc = "start"
    /\ selected_suppliers.selected # {}
    /\ stored_items # <<>>
    /\ pc' = "show_supplier_comparison"
    /\ comparison_rows' =
           ComparisonRows(project_items, selected_suppliers.suppliers,
                          selected_suppliers.selected, stored_items)
    /\ UNCHANGED <<matchVars, priceVars, buildVars, guessVars, prepared,
                   portalVars, project_items, selected_suppliers, stored_items,
                   rfpVars, normVars, storeVars>>

NextCompare == ReturnEarly \/ BuildComparison

SpecCompare == InitCompare /\ [][NextCompare]_vars

Compared == pc = "show_supplier_comparison"

\* the supplier a selected label stands for
SupplierOf(l) == SupplierChoices(selected_suppliers.suppliers)[l]

\* positions of the stored items of a supplier that reach the floor for a name
Candidates(name, supplier_id) ==
    {j \in DOMAIN stored_items :
        /\ stored_items[j].supplier_id = supplier_id
        /\ ScoreGE(_similarity_score(name, stored_items[j].item_name), MinScore)}

\* C18: the comparison has exactly one row per procurement item, in item
\* order, and each row has for every selected supplier a price cell: the
\* matched item's price when the match has price_available, 'POR' when the
\* match has no price, 'No match' when the supplier's catalog has no match.
C18_OneRowPerItemWithPriceCells ==
    Compared =>
        /\ Len(comparison_rows) = Len(project_items)
        /\ \A i \in DOMAIN project_items :
              LET row  == comparison_rows[i]
                  name == ProcNameOf(project_items[i].item_data)
              IN  /\ row.Item = name
                  /\ DOMAIN row.cells = selected_suppliers.selected
                  /\ \A l \in selected_suppliers.selected :
                        LET cands == Candidates(name, SupplierOf(l))
                            cell  == row.cells[l].Price
                        IN  /\ cands = {} <=> cell.text = "No match"
                            /\ cands # {} =>
                                  \E j \in cands :
                                     /\ row.cells[l].Match = stored_items[j].item_name
                                     /\ \A k \in cands :
                                           ScoreGE(
                                             _similarity_score(name, stored_items[j].item_name),
                                             _similarity_score(name, stored_items[k].item_name))
                                     /\ stored_items[j].price_available =>
                                           /\ cell.text = ""
                                           /\ cell.number = stored_items[j].price
                                     /\ ~stored_items[j].price_available =>
                                           /\ cell.text = "POR"
                                           /\ cell.number = <<>>

\* a comparison of two items in which one supplier has a price, one a match
\* without price and one no match
C18_Witness ==
    /\ Compared
    /\ Len(comparison_rows) = 2
    /\ \E i \in DOMAIN comparison_rows :
          \E l \in DOMAIN comparison_rows[i].cells :
              comparison_rows[i].cells[l].Price.number # <<>>
    /\ \E i \in DOMAIN comparison_rows :
          \E l \in DOMAIN comparison_rows[i].cells :
              comparison_rows[i].cells[l].Price.text = "POR"
    /\ \E i \in DOMAIN comparison_rows :
          \E l \in DOMAIN comparison_rows[i].cells :
              comparison_rows[i].cells[l].Price.text = "No match"

----------------------------------------------------------------------------
(* _compose_rfp_email *)

\* the line break
NewLine == "\n"

RECURSIVE JoinLines(_)
\* "\n".join(lines)
JoinLines(lines) ==
    IF lines = <<>> THEN <<>>
    ELSE IF Len(lines) = 1 THEN lines[1]
    ELSE lines[1] \o <<NewLine>> \o JoinLines(Tail(lines))

\* str.rstrip()
RStripText(t) ==
    LET keep == {i \in DOMAIN t : ~IsSpace(t[i])}
    IN  IF keep = {} THEN <<>>
        ELSE SubSeq(t, 1, CHOOSE i \in keep : \A j \in keep : j <= i)

\* dict.get(key, default) of a key that is <<>> when absent
GetOr(field, default) == IF field = <<>> THEN default ELSE field[1]

\* subject
RfpSubject(project) ==
    <<"R","F","P",":"," ">> \o StrOf(GetOr(project.hotel_info.property_name, TextCell(<<"H","o","t","e","l">>)))
        \o <<" ","-"," ">> \o StrOf(GetOr(project.project_id, EmptyText))

\* the greeting: contact_person, or name when contact_person is falsy
RfpGreeting(supplier) ==
    LET contact == GetOr(supplier.contact_person, NoneCell)
        who     == IF Truthy(contact) THEN contact
                   ELSE GetOr(supplier.name, NoneCell)
    IN  <<"H","e","l","l","o"," ">> \o StrOf(who) \o <<",">>

\* the line of one item, built by the loop body
RfpItemLine(item) ==
    <<"-"," ">> \o StrOf(item.item_name) \o <<" ","|"," ","Q","t","y",":"," ">> \o StrOf(item.quantity)
      \o (IF Truthy(GetOr(item.specification, NoneCell))
          THEN <<" ","|"," ","S","p","e","c",":"," ">> \o StrOf(item.specification[1]) ELSE <<>>)
      \o (IF Truthy(GetOr(item.price_available, NoneCell))
          THEN RStripText(<<" ","|"," ","T","a","r","g","e","t"," ","P","r","i","c","e",":"," ">> \o StrOf(item.price) \o <<" ">>
                          \o StrOf(GetOr(item.currency, EmptyText)))
          ELSE <<>>)

\* the elements of lines
RfpLines(project, supplier, rfp_items) ==
    << RfpGreeting(supplier), <<>>, <<"P","l","e","a","s","e"," ","p","r","o","v","i","d","e"," ","a"," ","q","u","o","t","a","t","i","o","n"," ","f","o","r"," ","t","h","e"," ","f","o","l","l","o","w","i","n","g"," ","i","t","e","m","s",":">>, <<>> >>
    \o [i \in DOMAIN rfp_items |-> RfpItemLine(rfp_items[i])]
    \o << <<>>, <<"P","l","e","a","s","e"," ","c","o","n","f","i","r","m"," ","l","e","a","d"," ","t","i","m","e","s",","," ","d","e","l","i","v","e","r","y"," ","t","e","r","m","s",","," ","a","n","d"," ","a","n","y"," ","a","l","t","e","r","n","a","t","i","v","e","s",".">>, <<>>, <<"T","h","a","n","k"," ","y","o","u",",">>,
          StrOf(GetOr(project.hotel_info.project_name, TextCell(<<"P","r","o","c","u","r","e","m","e","n","t"," ","T","e","a","m">>))) >>

\* the returned dict
_compose_rfp_email(project, supplier, rfp_items) ==
    [subject |-> RfpSubject(project),
     body    |-> JoinLines(RfpLines(project, supplier, rfp_items))]

----------------------------------------------------------------------------
(* Inputs of the composer *)

\* True and False as values of a dict
TrueCell  == IntCell(1)
FalseCell == IntCell(0)

RfpProjects ==
    { [hotel_info |-> [property_name |-> <<TextCell(<<"S","e","n","e","c","a">>)>>,
                       project_name  |-> <<TextCell(<<"O","p","e","n","i","n","g">>)>>],
       project_id |-> <<TextCell(<<"P","1">>)>>],
      [hotel_info |-> [property_name |-> <<>>, project_name |-> <<>>],
       project_id |-> <<>>] }

RfpSuppliers ==
    { [contact_person |-> <<TextCell(<<"A","n","n">>)>>, name |-> <<TextCell(<<"A","c","m","e">>)>>],
      [contact_person |-> <<EmptyText>>, name |-> <<TextCell(<<"A","c","m","e">>)>>] }

\* the items selected for a supplier, as the comparison page builds them:
\* names with and without a line break, with and without specification,
\* priced with and without currency, and price on request
RfpItems ==
    { [item_name |-> n, quantity |-> IntCell(2), specification |-> <<sp>>,
       price |-> p[1], currency |-> <<p[2]>>, price_available |-> <<p[3]>>] :
         n  \in {TextCell(<<"B","e","d">>), TextCell(<<"B","e","d","\n","F","r","a","m","e">>)},
         sp \in {EmptyText, TextCell(<<"S","t","d">>)},
         p  \in { <<NoneCell, NoneCell, FalseCell>>,
                  <<FloatCell(<<"4","5","0",".","0">>), TextCell(<<"U","S","D">>), TrueCell>>,
                  <<FloatCell(<<"4","5","0",".","0">>), EmptyText, TrueCell>> } }

InitRfp ==
    /\ pc = "start"
    /\ IdleMatch
    /\ IdlePrice
    /\ IdleBuild
    /\ IdleGuess
    /\ IdlePrepare
    /\ IdlePortal
    /\ IdleCompare
    /\ IdleNormalize
    /\ IdleStore
    /\ rfp_input \in
           { <<[project |-> pr, supplier |-> su, items |-> its]>> :
                 pr \in RfpProjects, su \in RfpSuppliers,
                 its \in UNION {[1..m -> RfpItems] : m \in 0..MaxRfpItems} }
    /\ rfp_email = <<>>
    /\ rfp_calls = 0

ComposeRfpEmail ==
    /\ rfp_calls < MaxCalls
    /\ pc' = "_compose_rfp_email"
    /\ rfp_email' = << _compose_rfp_email(rfp_input[1].project,
                                          rfp_input[1].supplier,
                                          rfp_input[1].items) >>
    /\ rfp_calls' = rfp_calls + 1
    /\ UNCHANGED <<matchVars, priceVars, buildVars, guessVars, prepared,
                   portalVars, compareVars, rfp_input, normVars, storeVars>>

NextRfp == ComposeRfpEmail

SpecRfp == InitRfp /\ [][NextRfp]_vars

Composed == pc = "_compose_rfp_email"

RECURSIVE SplitLines(_)
\* the lines of a text: the parts between line breaks
SplitLines(t) ==
    LET breaks == {i \in DOMAIN t : t[i] = NewLine}
    IN  IF breaks = {} THEN <<t>>
        ELSE LET b == CHOOSE i \in breaks : \A j \in breaks : i <= j
             IN  <<SubSeq(t, 1, b - 1)>> \o SplitLines(SubSeq(t, b + 1, Len(t)))

\* t has part at some position
HasPart(t, part) ==
    \E i \in 0..(Len(t) - Len(part)) : SubSeq(t, i + 1, i + Len(part)) = part

\* the lines of the body between the four opening and the five closing lines
BodyItemLines ==
    LET all == SplitLines(rfp_email[1].body)
    IN  SubSeq(all, 5, Len(all) - 5)

\* C19 (state part): the body has exactly one line per item, in input order,
\* each with the item's name and quantity, a specification part exactly when
\* the specification is non-empty and a target-price part exactly when the
\* item has price_available
C19_OneLinePerItem ==
    Composed =>
        LET its == rfp_input[1].items
        IN  /\ Len(BodyItemLines) = Len(its)
            /\ \A i \in DOMAIN its :
                  i \in DOMAIN BodyItemLines =>
                    LET line == BodyItemLines[i]
                    IN  /\ HasPart(line, StrOf(its[i].item_name))
                        /\ HasPart(line, <<"Q","t","y",":"," ">> \o StrOf(its[i].quantity))
                        /\ HasPart(line, <<"S","p","e","c",":"," ">>) <=>
                               its[i].specification[1].s # <<>>
                        /\ HasPart(line, <<"T","a","r","g","e","t"," ","P","r","i","c","e",":"," ">>) <=>
                               its[i].price_available[1] = TrueCell

\* C19: _compose_rfp_email is a pure function of (project, supplier, items):
\* one body line per item in input order with name, quantity, specification
\* when non-empty and target price when price_available; equal inputs give
\* an equal {subject, body}; composing changes no stored project, supplier
\* or catalog data.
C19_PureOneLinePerItem ==
    /\ [] C19_OneLinePerItem
    /\ [][ /\ rfp_input' = rfp_input
           /\ UNCHANGED <<compareVars, portalVars>>
           /\ Composed => rfp_email' = rfp_email ]_vars

----------------------------------------------------------------------------
(* _normalize_text on its own *)

\* characters of the values: lower and upper case letters, a digit,
\* punctuation, a space, and two characters outside ASCII
NormAlphabet == {"a", "B", "7", "-", " ", KelvinSign, EnDash}

\* the values: None, NaN, integers, a float and texts
NormValues ==
    {NoneCell, NanCell, IntCell(0), IntCell(0 - 5), IntCell(450),
     FloatCell(<<"4","5","0",".","0">>)}
    \cup {TextCell(t) : t \in TextsUpTo(NormAlphabet, MaxNameLen)}

InitNormalize ==
    /\ pc = "start"
    /\ IdleMatch
    /\ IdlePrice
    /\ IdleBuild
    /\ IdleGuess
    /\ IdlePrepare
    /\ IdlePortal
    /\ IdleCompare
    /\ IdleRfp
    /\ IdleStore
    /\ norm_value \in NormValues
    /\ norm_once = <<>>
    /\ norm_twice = <<>>

\* _normalize_text(value), and _normalize_text of its result
NormalizeText ==
    /\ pc = "start"
    /\ pc' = "_normalize_text"
    /\ norm_once' = <<_normalize_text(norm_value)>>
    /\ norm_twice' = <<_normalize_text(TextCell(_normalize_text(norm_value)))>>
    /\ UNCHANGED <<matchVars, priceVars, buildVars, guessVars, prepared,
                   portalVars, compareVars, rfpVars, norm_value, storeVars>>

NextNormalize == NormalizeText

SpecNormalize == InitNormalize /\ [][NextNormalize]_vars

Normalized == pc = "_normalize_text"

\* C20: for every value, _normalize_text(_normalize_text(value)) =
\* _normalize_text(value), and the result contains only the lowercase ASCII
\* letters a-z and the digits 0-9.
C20_NormalizeIdempotentAlnum ==
    Normalized =>
        /\ norm_twice = norm_once
        /\ \A i \in DOMAIN norm_once[1] :
               norm_once[1][i] \in Range(LowerLetters) \cup Range(Digits)

\* a text with a capital, the Kelvin sign and punctuation was normalized to
\* a non-empty text different from it
C20_Witness ==
    /\ Normalized
    /\ norm_value.k = "str"
    /\ \E i \in DOMAIN norm_value.s : norm_value.s[i] = "B"
    /\ \E i \in DOMAIN norm_value.s : norm_value.s[i] = KelvinSign
    /\ \E i \in DOMAIN norm_value.s : norm_value.s[i] = "-"
    /\ norm_once[1] = <<"b", "k">>

----------------------------------------------------------------------------
(* _source_row after a header row was promoted *)

\* the position (1-based) of the row _prepare_dataframe promotes: the row
\* at the 0-based position equal to the label of the first accepted row
PromotedPosition ==
    LET accepted == {i \in DOMAIN df.rows : IsAccepted(df.rows[i])}
    IN  df.index[CHOOSE i \in accepted : \A j \in accepted : i <= j] + 1

\* a header row was promoted by the call
HeaderPromoted ==
    /\ Prepared
    /\ HasPlaceholder(df)
    /\ prepared.raised = ""
    /\ \E i \in DOMAIN df.rows : IsAccepted(df.rows[i])

\* the _source_row cell of the k-th row of the result
SourceRowAt(k) ==
    RowGet(prepared.table.columns, prepared.table.rows[k], SourceRowLabel, NoneCell)

\* C21: after a header row is promoted, every surviving row's _source_row
\* is the row's 0-based position in the original table plus 1 (the row
\* labels of a table are the 0-based positions of its rows in the grid it
\* was taken from): rows without a value are dropped without renumbering
\* the others, all _source_row values are distinct, and each is greater
\* than the 1-based position of the promoted row.
C21_SourceRowIsOriginalPosition ==
    HeaderPromoted =>
        LET h     == PromotedPosition
            below == {p \in DOMAIN df.rows :
                         /\ p > h
                         /\ \E c \in DOMAIN df.rows[p] : ~IsNA(df.rows[p][c])}
        IN  /\ Len(prepared.table.rows) = Cardinality(below)
            /\ \A k \in DOMAIN prepared.table.rows :
                  \E p \in below :
                     /\ prepared.table.index[k] = df.index[p]
                     /\ SourceRowAt(k) = IntCell(df.index[p] + 1)
                     /\ df.index[1] = 0 => SourceRowAt(k) = IntCell(p)
                     /\ SourceRowAt(k).n > df.index[h] + 1
                     /\ k = Cardinality({q \in below : q <= p})
            /\ \A k1, k2 \in DOMAIN prepared.table.rows :
                  k1 # k2 => SourceRowAt(k1) # SourceRowAt(k2)

\* the first row was promoted, the second row had no value and was dropped,
\* and the third row is stamped 3
C21_Witness ==
    /\ HeaderPromoted
    /\ df.index[1] = 0
    /\ PromotedPosition = 1
    /\ Len(df.rows) = 3
    /\ \A c \in DOMAIN df.rows[2] : IsNA(df.rows[2][c])
    /\ Len(prepared.table.rows) = 1
    /\ SourceRowAt(1) = IntCell(3)

----------------------------------------------------------------------------
(* _prepare_dataframe without a promoted header *)

\* no column label is a placeholder, or no row is accepted as header
NothingToPromote ==
    \/ ~HasPlaceholder(df)
    \/ \A i \in DOMAIN df.rows : ~IsAccepted(df.rows[i])

\* the columns of df with a value in some row
ValuedColumns ==
    {c \in DOMAIN df.columns : \E r \in DOMAIN df.rows : ~IsNA(df.rows[r][c])}

\* C22: when the table has no placeholder column label, or has one but no
\* header row is found, _prepare_dataframe returns the input with only its
\* fully empty columns removed: no row is removed or reordered, no column
\* label is changed, and no _source_row is added.
C22_OnlyEmptyColumnsRemoved ==
    (Prepared /\ NothingToPromote) =>
        /\ prepared.raised = ""
        /\ prepared.table.index = df.index
        /\ Len(prepared.table.rows) = Len(df.rows)
        /\ Len(prepared.table.columns) = Cardinality(ValuedColumns)
        /\ \A c \in ValuedColumns :
              LET at == Cardinality({d \in ValuedColumns : d <= c})
              IN  /\ prepared.table.columns[at] = df.columns[c]
                  /\ \A r \in DOMAIN df.rows :
                        prepared.table.rows[r][at] = df.rows[r][c]
        /\ \A r \in DOMAIN prepared.table.rows :
              Len(prepared.table.rows[r]) = Cardinality(ValuedColumns)
        /\ \A c \in DOMAIN prepared.table.columns :
              prepared.table.columns[c] # SourceRowLabel

\* placeholder labels and no header row: two columns without a value were
\* removed, and a row without a value was kept
C22_Witness ==
    /\ Prepared
    /\ HasPlaceholder(df)
    /\ NothingToPromote
    /\ Len(df.rows) >= 2
    /\ Cardinality(ValuedColumns) = 1
    /\ \E r \in DOMAIN df.rows : \A c \in DOMAIN df.rows[r] : IsNA(df.rows[r][c])
    /\ Len(prepared.table.rows) = Len(df.rows)
    /\ Len(prepared.table.columns) = 1

----------------------------------------------------------------------------
(* _prepare_dataframe on a table of fewer than 2 columns *)

\* C23: for every table with fewer than 2 columns _prepare_dataframe
\* returns the table unchanged: same columns (also when the only column is
\* entirely empty), same rows, same labels.
C23_NarrowTableUnchanged ==
    (Prepared /\ Len(df.columns) < 2) =>
        /\ prepared.raised = ""
        /\ prepared.table = df

----------------------------------------------------------------------------
(* Image linking of the item builder *)

\* the rows of df that yield an item, in order
NamedRows ==
    LET named == {i \in DOMAIN df.rows : ~SkipsRow(df.columns, df.rows[i], column_map)}
    IN  PickFrom([i \in DOMAIN df.rows |-> i], 1, named)

\* C24: for every item built, image_path is image_map[(sheet_name,
\* source_row)] when the image map is given, the row has a source_row and
\* the map has that key, and the empty string in every other case; a map
\* entry that matches no row changes no item, and a missing image never
\* drops or fails a row.
C24_ImagePathFromMap ==
    Built =>
        /\ Len(items) = (IF Truthy(column_map["item"]) THEN Len(NamedRows) ELSE 0)
        /\ \A k \in DOMAIN items :
              LET sr  == items[k].source_row
                  key == <<sheet_name, sr[1]>>
              IN  /\ sr = SourceRowOf(df.columns, df.rows[NamedRows[k]])
                  /\ items[k].item_name =
                         ItemNameOf(df.columns, df.rows[NamedRows[k]], column_map)
                  /\ IF sr # <<>> /\ key \in DOMAIN image_map
                     THEN items[k].image_path = image_map[key]
                     ELSE items[k].image_path = <<>>

\* two items were built from a table with _source_row under a map with two
\* entries, one of which matches no row: one item has the image of its row,
\* the other has none
C24_Witness ==
    /\ Built
    /\ Len(items) = 2
    /\ Cardinality(DOMAIN image_map) = 2
    /\ \E key \in DOMAIN image_map :
          \A k \in DOMAIN items : items[k].source_row # <<key[2]>>
    /\ \E k \in DOMAIN items :
          /\ items[k].image_path # <<>>
          /\ items[k].image_path = image_map[<<sheet_name, items[k].source_row[1]>>]
    /\ \E k \in DOMAIN items : items[k].image_path = <<>>

----------------------------------------------------------------------------
(* "Save Catalog" on a workbook of one sheet *)

\* the selected item column of the shown table has a name in some row
ChoiceHasNamedRow ==
    LET table == ShownTable(catalog_data[1], item_choice[1].sheet)
    IN  /\ Truthy(item_choice[1].item)
        /\ \E c \in DOMAIN table.columns :
              /\ table.columns[c] = item_choice[1].item
              /\ \E r \in DOMAIN table.rows : ~IsEmptyNameCell(table.rows[r][c])

\* C25: "Save Catalog" on the single-catalog path for a workbook with
\* exactly one sheet, with an item column selected and at least one named
\* row, completes without error and makes exactly one save_supplier_catalog
\* call (stated for "Extract embedded images" unticked).
C25_SingleSheetSaveCompletes ==
    ( /\ CatalogSaved
      /\ IsWorkbook(uploaded_file)
      /\ Len(catalog_data[1].sheet_names) = 1
      /\ ~extract_images
      /\ ChoiceHasNamedRow ) =>
        /\ message = SavedMessage
        /\ Len(save_calls) = 1

----------------------------------------------------------------------------
(* The promoted row and the detected row *)

\* C26: whenever _detect_header_row finds a header in the table, the row
\* whose values become the column labels is the detected row itself and the
\* rows kept are exactly the rows below it, also when the table's row
\* labels do not start at 0.
C26_DetectedRowIsPromoted ==
    (Prepared /\ HasPlaceholder(df)) =>
        LET accepted == {i \in DOMAIN df.rows : IsAccepted(df.rows[i])}
        IN  accepted # {} =>
                PromotesRow(CHOOSE i \in accepted : \A j \in accepted : i <= j)

----------------------------------------------------------------------------
(* Names that normalize to the empty string *)

\* a letter or digit: ASCII or not
IsLetterOrDigit(c) ==
    \/ LowerChar(c) \in Range(LowerLetters) \cup Range(Digits)
    \/ c \in NonAsciiLetters

\* the letters and digits of a name, in order, ignoring case
NameLetters(t) ==
    LET kept == SelectSeq(t, IsLetterOrDigit)
    IN  [i \in DOMAIN kept |-> LowerChar(kept[i])]

\* a name written wholly in non-ASCII letters or wholly in punctuation
IsWhollyNonAscii(t) == t # <<>> /\ \A i \in DOMAIN t : t[i] \in NonAsciiLetters

IsWhollyPunctuation(t) == t # <<>> /\ \A i \in DOMAIN t : ~IsLetterOrDigit(t[i])

\* C27: a match with match_score 1.0 is returned only when the procurement
\* name and the candidate name have the same sequence of letters and
\* digits, ignoring case and punctuation; two different names written
\* wholly in non-ASCII letters, or wholly in punctuation, are not matched
\* to each other.
C27_FullScoreOnlyForSameLetters ==
    (Matched /\ match_result # <<>>) =>
        LET name == match_result[1].item.item_name
        IN  /\ match_result[1].match_score[1] = match_result[1].match_score[2]
                  => NameLetters(proc_name) = NameLetters(name)
            /\ ~( /\ name # proc_name
                  /\ \/ IsWhollyNonAscii(name) /\ IsWhollyNonAscii(proc_name)
                     \/ IsWhollyPunctuation(name) /\ IsWhollyPunctuation(proc_name) )

----------------------------------------------------------------------------
(* ProcurementDatabase: save_project *)

\* the clock advances in ticks; strftime('%Y%m%d_%H%M%S') keeps the second
TicksPerSecond == 2

MaxClock == 4

SecondOf(t) == t \div TicksPerSecond

\* the categories save_project walks through, in its order
Categories ==
    <<"guest_rooms", "linen", "bathroom", "furniture", "amenities",
      "restaurant", "kitchen", "spa", "pool", "gym", "public_areas",
      "conference", "back_of_house">>

_get_department(category) ==
    CASE category \in {"guest_rooms", "furniture", "amenities"} -> "Rooms Division"
      [] category \in {"linen", "bathroom"} -> "Housekeeping"
      [] category \in {"restaurant", "kitchen"} -> "Food & Beverage"
      [] category = "spa" -> "Spa & Wellness"
      [] category \in {"pool", "gym"} -> "Recreation"
      [] category = "public_areas" -> "Front Office"
      [] category = "conference" -> "Meeting & Events"
      [] category = "back_of_house" -> "Back of House"
      [] OTHER -> "General"

\* the procurement_status every saved item starts with; the keys
\* installation_specs and last_updated are absent (<<>>) until written
PendingStatus ==
    [ordered |-> FALSE, ordered_date |-> <<>>, ordered_qty |-> 0,
     received |-> FALSE, received_date |-> <<>>, received_qty |-> 0,
     installed |-> FALSE, installed_date |-> <<>>,
     supplier |-> "", po_number |-> "", unit_price |-> 0, total_price |-> 0,
     notes |-> "", installation_specs |-> <<>>, last_updated |-> <<>>]

item_record(project_id, category, item) ==
    [project_id |-> project_id,
     category |-> category,
     department |-> _get_department(category),
     item_data |-> item,
     procurement_status |-> PendingStatus]

\* the records of the categories from position c on, in list order
RECURSIVE RecordsFrom(_, _, _)
RecordsFrom(project_id, results, c) ==
    IF c > Len(Categories) THEN <<>>
    ELSE LET category == Categories[c]
             rows == results[category]
         IN  [i \in DOMAIN rows |-> item_record(project_id, category, rows[i])]
                 \o RecordsFrom(project_id, results, c + 1)

project_info_of(project_id, project_data, t) ==
    [project_id |-> project_id,
     created_at |-> t,
     hotel_info |-> [property_name |-> project_data.property_name,
                     total_rooms |-> project_data.total_rooms],
     status |-> "active",
     last_modified |-> t]

\* "d[key] = value" on a dict held as a function
Assign(d, key, value) ==
    [k \in DOMAIN d \cup {key} |-> IF k = key THEN value ELSE d[k]]

\* the project id: the clock's second, shared by every call of that second
ProjectIdAt(t) == SecondOf(t)

\* save_project(project_data, results) at clock t: the two files after it
\* and the id returned
save_project(projects, stored, project_data, results, t) ==
    LET project_id == ProjectIdAt(t)
    IN  [projects |-> Assign(projects, project_id,
                             project_info_of(project_id, project_data, t)),
         items |-> Assign(stored, project_id, RecordsFrom(project_id, results, 1)),
         project_id |-> project_id]

\* item rows of the calculator
BedBase == [Item |-> <<"B", "e", "d">>, Total_Qty |-> 2]

Mattress == [Item |-> <<"M", "a", "t">>, Total_Qty |-> 2]

Towel == [Item |-> <<"T", "o", "w">>, Total_Qty |-> 4]

\* calculate_all's result with the given guest_rooms and linen lists
ResultsOf(guest_rooms, linen) ==
    [category \in Range(Categories) |->
        IF category = "guest_rooms" THEN guest_rooms
        ELSE IF category = "linen" THEN linen
        ELSE <<>>]

SaveResults ==
    {ResultsOf(<<>>, <<>>), ResultsOf(<<BedBase>>, <<>>),
     ResultsOf(<<BedBase, Mattress>>, <<Towel>>)}

ProjectConfigs ==
    {[property_name |-> "A", total_rooms |-> 1],
     [property_name |-> "B", total_rooms |-> 2]}

IdleSave ==
    /\ projects_file = <<>>
    /\ items_file = <<>>
    /\ now = 0
    /\ returned_ids = <<>>

InitSave ==
    /\ pc = "start"
    /\ IdleMatch
    /\ IdlePrice
    /\ IdleBuild
    /\ IdleGuess
    /\ IdlePrepare
    /\ IdlePortal
    /\ IdleCompare
    /\ IdleRfp
    /\ IdleNormalize
    /\ IdleSave
    /\ pressed = <<>>

\* time passes between two clicks
Tick ==
    /\ now < MaxClock
    /\ pc' = "Tick"
    /\ now' = now + 1
    /\ UNCHANGED <<projects_file, items_file, returned_ids, pressed, matchVars,
                   priceVars, buildVars, guessVars, prepared, portalVars,
                   compareVars, rfpVars, normVars>>

\* "Calculate & Save": db.save_project(config, results)
SaveProject ==
    /\ now < MaxClock
    /\ \E project_data \in ProjectConfigs, results \in SaveResults :
           LET r == save_project(projects_file, items_file, project_data,
                                 results, now)
           IN  /\ projects_file' = r.projects
               /\ items_file' = r.items
               /\ returned_ids' = Append(returned_ids, r.project_id)
    /\ pc' = "save_project"
    /\ now' = now + 1
    /\ UNCHANGED <<pressed, matchVars, priceVars, buildVars, guessVars,
                   prepared, portalVars, compareVars, rfpVars, normVars>>

NextSave == Tick \/ SaveProject

SpecSave == InitSave /\ [][NextSave]_vars

\* C28: every save_project call returns a project id that no earlier call
\* returned, and every project and item list stored before the call is
\* still stored unchanged after it, also when two calls happen within the
\* same clock second.
C28_SaveKeepsEarlierProjects ==
    [][ pc' = "save_project" =>
            /\ returned_ids'[Len(returned_ids')] \notin Range(returned_ids)
            /\ \A id \in DOMAIN projects_file :
                   /\ id \in DOMAIN projects_file'
                   /\ projects_file'[id] = projects_file[id]
                   /\ id \in DOMAIN items_file'
                   /\ items_file'[id] = items_file[id] ]_vars

----------------------------------------------------------------------------
(* ProcurementDatabase.update_item_status and show_procurement_checklist *)

\* strftime('%Y-%m-%d') keeps the day
SecondsPerDay == 2

DayOf(t) == SecondOf(t) \div SecondsPerDay

\* update_item_status(project_id, item_index, status_update) at clock t:
\* the items file after it; item_index counts from 0
update_item_status(stored, project_id, item_index, status_update, t) ==
    IF project_id \in DOMAIN stored /\ item_index < Len(stored[project_id])
    THEN LET old == stored[project_id][item_index + 1].procurement_status
             new == [f \in DOMAIN old |->
                        IF f = "last_updated" THEN <<t>>
                        ELSE IF f \in DOMAIN status_update THEN status_update[f]
                        ELSE old[f]]
         IN  [stored EXCEPT ![project_id][item_index + 1].procurement_status = new]
    ELSE stored

FilterStatuses == {"All", "Not Ordered", "Ordered", "Received", "Installed"}

\* the options of "Filter by Department"
DeptOptions(proj_items) ==
    {"All"} \cup {proj_items[i].department : i \in DOMAIN proj_items}

SearchTerms == {<<>>, <<"t", "O">>}

PassesDept(item, filter_dept) ==
    filter_dept = "All" \/ item.department = filter_dept

PassesStatus(item, filter_status) ==
    LET status == item.procurement_status
    IN  CASE filter_status = "Not Ordered" -> ~status.ordered
          [] filter_status = "Ordered" -> status.ordered /\ ~status.received
          [] filter_status = "Received" -> status.received /\ ~status.installed
          [] filter_status = "Installed" -> status.installed
          [] OTHER -> TRUE

PassesSearch(item, search_term) ==
    search_term = <<>>
        \/ Contains(LowerText(item.item_data.Item), LowerText(search_term))

\* filtered_items, as the stored positions (from 1) of the items kept
filtered_items(proj_items, filter_dept, filter_status, search_term) ==
    LET Keep(p) == /\ PassesDept(proj_items[p], filter_dept)
                   /\ PassesStatus(proj_items[p], filter_status)
                   /\ PassesSearch(proj_items[p], search_term)
    IN  SelectSeq([p \in DOMAIN proj_items |-> p], Keep)

\* "original_idx = items.index(item)": the first stored position holding an
\* equal item, counted from 0, for the item shown k-th
original_idx(proj_items, filtered, k) ==
    LET p == filtered[k]
        first == CHOOSE q \in 1..p :
                     /\ proj_items[q] = proj_items[p]
                     /\ \A r \in 1..(q - 1) : proj_items[r] # proj_items[p]
    IN  first - 1

\* a mutant: widgets are created whatever their keys
WidgetsCreated_any(proj_items, filtered, k) == k \in DOMAIN filtered

\* every widget of an item carries original_idx in its key, and a key used
\* twice in one run raises DuplicateWidgetID: the loop ends at the first
\* shown item whose original_idx an earlier shown item has, so the widgets
\* of the k-th shown item exist only when no item up to it repeats a key
WidgetsCreated(proj_items, filtered, k) ==
    /\ k \in DOMAIN filtered
    /\ \A j \in 1..k : \A i \in 1..(j - 1) :
           original_idx(proj_items, filtered, i) # original_idx(proj_items, filtered, j)

\* a mutant: the next flag whatever the earlier ones are
QuickAction_installfirst(status) ==
    IF ~status.installed THEN "Mark Installed"
    ELSE IF ~status.received THEN "Mark Received"
    ELSE IF ~status.ordered THEN "Mark Ordered"
    ELSE ""

\* the quick action button shown for an item, "" for none
QuickAction(status) ==
    IF ~status.ordered THEN "Mark Ordered"
    ELSE IF ~status.received THEN "Mark Received"
    ELSE IF ~status.installed THEN "Mark Installed"
    ELSE ""

\* what the Procurement Details widgets hold: the stored values, or an edit
DetailInputs(status) ==
    {[supplier |-> status.supplier, po_number |-> status.po_number,
      unit_price |-> status.unit_price, ordered_qty |-> status.ordered_qty,
      received_qty |-> status.received_qty, notes |-> status.notes],
     [supplier |-> "Acme", po_number |-> "PO-1", unit_price |-> 2,
      ordered_qty |-> 3, received_qty |-> 1, notes |-> "urgent"]}

\* what the Installation Specifications widgets hold
InstallInputs(status) ==
    LET install_specs == status.installation_specs
    IN  {IF install_specs = <<>>
         THEN [height_cm |-> 0, distance_from_fixture |-> "",
               installation_notes |-> "", installer_assigned |-> ""]
         ELSE install_specs[1],
         [height_cm |-> 120, distance_from_fixture |-> "20cm above sink",
          installation_notes |-> "", installer_assigned |-> "Sam"]}

ChecklistButtons ==
    {"Mark Ordered", "Mark Received", "Mark Installed", "Save Details",
     "Save Installation Specs"}

\* the status_update dicts a button can send for an item at clock t
StatusUpdates(button, status, t) ==
    CASE button = "Mark Ordered" ->
             {[ordered |-> TRUE, ordered_date |-> <<DayOf(t)>>]}
      [] button = "Mark Received" ->
             {[received |-> TRUE, received_date |-> <<DayOf(t)>>]}
      [] button = "Mark Installed" ->
             {[installed |-> TRUE, installed_date |-> <<DayOf(t)>>]}
      [] button = "Save Details" ->
             {[supplier |-> d.supplier, po_number |-> d.po_number,
               unit_price |-> d.unit_price, ordered_qty |-> d.ordered_qty,
               received_qty |-> d.received_qty,
               total_price |-> d.unit_price * d.ordered_qty,
               notes |-> d.notes] : d \in DetailInputs(status)}
      [] OTHER ->
             {[installation_specs |-> <<d>>] : d \in InstallInputs(status)}

\* whether the button is on the page for an item
IsOffered(button, status) ==
    button \in {"Save Details", "Save Installation Specs"}
        \/ button = QuickAction(status)

\* the project the checklist shows: the one saved at clock 0
ChecklistProject == ProjectIdAt(0)

ChecklistResults == ResultsOf(<<Mattress>>, <<Towel, Towel>>)

ChecklistConfig == [property_name |-> "A", total_rooms |-> 1]

InitChecklist ==
    /\ pc = "start"
    /\ IdleMatch
    /\ IdlePrice
    /\ IdleBuild
    /\ IdleGuess
    /\ IdlePrepare
    /\ IdlePortal
    /\ IdleCompare
    /\ IdleRfp
    /\ IdleNormalize
    /\ LET r == save_project(<<>>, <<>>, ChecklistConfig, ChecklistResults, 0)
       IN  /\ projects_file = r.projects
           /\ items_file = r.items
           /\ returned_ids = <<r.project_id>>
    /\ now = 1
    /\ pressed = <<>>

\* a button of the k-th shown item is pressed under some filter setting
Press(button) ==
    /\ now < MaxClock
    /\ LET proj_items == items_file[ChecklistProject]
       IN  \E filter_dept \in DeptOptions(proj_items),
              filter_status \in FilterStatuses, search_term \in SearchTerms :
               LET filtered == filtered_items(proj_items, filter_dept,
                                              filter_status, search_term)
               IN  \E k \in DOMAIN filtered :
                       LET status == proj_items[filtered[k]].procurement_status
                       IN  /\ WidgetsCreated(proj_items, filtered, k)
                           /\ IsOffered(button, status)
                           /\ \E status_update \in StatusUpdates(button, status, now) :
                                  items_file' =
                                      update_item_status(
                                          items_file, ChecklistProject,
                                          original_idx(proj_items, filtered, k),
                                          status_update, now)
                           /\ pressed' = <<[button |-> button, pos |-> filtered[k],
                                            shown |-> k]>>
    /\ pc' = button
    /\ now' = now + 1
    /\ UNCHANGED <<projects_file, returned_ids, matchVars, priceVars, buildVars,
                   guessVars, prepared, portalVars, compareVars, rfpVars,
                   normVars>>

MarkOrdered == Press("Mark Ordered")

MarkReceived == Press("Mark Received")

MarkInstalled == Press("Mark Installed")

SaveDetails == Press("Save Details")

SaveInstallationSpecs == Press("Save Installation Specs")

NextChecklist ==
    \/ MarkOrdered
    \/ MarkReceived
    \/ MarkInstalled
    \/ SaveDetails
    \/ SaveInstallationSpecs

SpecChecklist == InitChecklist /\ [][NextChecklist]_vars

ShownItems == items_file[ChecklistProject]

StatusAt(p) == ShownItems[p].procurement_status

\* C29: for any sequence of checklist actions every item satisfies
\* installed implies received and received implies ordered, and a status
\* flag that has become true never becomes false again.
C29_FlagsInOrderAndKept ==
    /\ [](\A p \in DOMAIN ShownItems :
              /\ StatusAt(p).installed => StatusAt(p).received
              /\ StatusAt(p).received => StatusAt(p).ordered)
    /\ [][\A p \in DOMAIN ShownItems :
              /\ StatusAt(p).ordered => StatusAt(p).ordered'
              /\ StatusAt(p).received => StatusAt(p).received'
              /\ StatusAt(p).installed => StatusAt(p).installed']_vars

\* an item has just gone through the third of the three quick actions
C29_Witness ==
    \E p \in DOMAIN ShownItems :
        /\ StatusAt(p).installed /\ StatusAt(p).received /\ StatusAt(p).ordered
        /\ pc = "Mark Installed"

\* C30: a checklist action pressed on a displayed item changes the
\* procurement status of exactly that stored item and of no other item of
\* the project, for every filter setting, also when the project holds two
\* items with identical item data and status.
C30_PressChangesThatItemOnly ==
    [][ pc' \in ChecklistButtons =>
            LET p == pressed'[1].pos
                before == items_file[ChecklistProject]
                after == items_file'[ChecklistProject]
            IN  /\ DOMAIN after = DOMAIN before
                /\ \A q \in DOMAIN before : q # p => after[q] = before[q]
                /\ after[p].procurement_status # before[p].procurement_status
                /\ after[p] = [before[p] EXCEPT !.procurement_status =
                                                    after[p].procurement_status]
                /\ DOMAIN items_file' = DOMAIN items_file ]_vars

\* the first of two identical items was pressed while a filter hid the
\* item stored before it; its twin is still as saved
C30_Witness ==
    /\ pressed # <<>>
    /\ pressed[1].shown # pressed[1].pos
    /\ \E q \in DOMAIN ShownItems :
           /\ q # pressed[1].pos
           /\ ShownItems[q].item_data = ShownItems[pressed[1].pos].item_data
           /\ ShownItems[q].department = ShownItems[pressed[1].pos].department
           /\ StatusAt(q) = PendingStatus
    /\ StatusAt(pressed[1].pos).ordered

====
